---- MODULE Spec2Model ----
(***************************************************************************)
(* A model of package httpc (github.com/kraciasty/httpc): the middleware   *)
(* chain builder, the Client and RoundTripper wrappers with their With     *)
(* derivation, and the built-in middlewares.                               *)
(*                                                                         *)
(* The heap is explicit.  A Go slice is a header [arr, len] over a backing *)
(* array, so that two slices sharing storage can be told apart from two    *)
(* slices with equal contents.  A wrapper is a heap object addressed by    *)
(* its index in wrappers.  A call of Do/RoundTrip runs one layer of the    *)
(* chain per step: the code of a middleware before it forwards is one      *)
(* step, the base executor is one step, and the code of a middleware after *)
(* the forwarded call has returned (deferred functions included) is one    *)
(* step.                                                                   *)
(***************************************************************************)
EXTENDS Integers, Sequences, FiniteSets, TLC

VARIABLES
    arrays,     \* the backing arrays of the middleware slices, by address
    held,       \* the arrays the caller still holds a slice of
    wrappers,   \* the Client and RoundTripper objects, by address
    call        \* the call of Do/RoundTrip in flight, or the last one made

vars == <<arrays, held, wrappers, call>>

(***************************************************************************)
(* Bounds of the model.                                                    *)
(***************************************************************************)
MaxArgs == 1        \* middlewares in one variadic argument list, when deriving
MaxWrappers == 3    \* wrapper objects alive
MaxHeirs == 2       \* wrapper objects alive, when they are also called
MaxList == 3        \* middlewares in the list of a wrapper that is only called
MaxPath == 3        \* characters of a URL path, the paths of the tests apart

(***************************************************************************)
(* Values.                                                                 *)
(***************************************************************************)

\* The nil MiddlewareFunc.
Nil == [kind |-> "nil"]

\* (*http.Response)(nil), error(nil), and "no panic in flight".
NilResp == [kind |-> "nil"]
NilErr == [kind |-> "nil"]
NoPanic == [kind |-> "none"]

\* The nil interface value given to panic, and what the runtime makes of it.
NilPayload == [kind |-> "nil"]
PanicNilError == [kind |-> "runtime.PanicNilError"]
StringPayload(s) == [kind |-> "string", s |-> s]

ErrPanicRecovered == [kind |-> "errorString", msg |-> "panic recovered"]

\* context.DeadlineExceeded and context.Canceled.
DeadlineExceeded == [kind |-> "deadlineExceededError", msg |-> "context deadline exceeded"]
Canceled == [kind |-> "errorString", msg |-> "context canceled"]
ErrInsecureScheme == [kind |-> "errorString", msg |-> "insecure scheme"]

\* debug.Stack() returns the formatted stack of the calling goroutine, which
\* always holds at least the frame of the caller.
DebugStack == <<"goroutine", "runtime/debug.Stack", "httpc.Recover.func1.1.1">>

PanicError(recovered, stack) ==
    [kind |-> "PanicError", Recovered |-> recovered, Stack |-> stack]

\* (*PanicError).Is, and errors.Is for the error values of the model (none of
\* them wraps another error).
PanicErrorIs(e, target) == target = ErrPanicRecovered

ErrorsIs(err, target) ==
    \/ err = target
    \/ err.kind = "PanicError" /\ PanicErrorIs(err, target)

(***************************************************************************)
(* Requests.  The header map is a reference shared by every shallow copy   *)
(* of the request; the URL and the context are fields of the request       *)
(* object.                                                                 *)
(***************************************************************************)
\* What Deadline() reports: no deadline, or the one deadline.
NoDeadline == <<>>

\* A context: its deadline, whether its Done channel is closed, and what Err()
\* returns.
\* context.Background().  A context is its deadline, whether it has ended
\* and with which error, and the CancelFuncs that end it: its own and those
\* of the contexts it descends from.
Background == [deadline |-> NoDeadline, canceled |-> FALSE, err |-> NilErr, cancels |-> {}]

\* context.WithCancel(parent), of the one who holds the CancelFunc.
WithCancel(ctx, who) == [ctx EXCEPT !.cancels = @ \cup {who}]

HeaderKeys ==
    {"X-Foo", "X-Bar", "Authorization", "User-Agent", "Accept", "Content-Type"}

\* textproto.CanonicalMIMEHeaderKey, for the keys of the model and their
\* lower-case spellings.
CanonicalMIMEHeaderKey(k) ==
    CASE k = "x-foo" -> "X-Foo"
      [] k = "x-bar" -> "X-Bar"
      [] k = "authorization" -> "Authorization"
      [] k = "user-agent" -> "User-Agent"
      [] k = "accept" -> "Accept"
      [] k = "content-type" -> "Content-Type"
      [] OTHER -> k

EmptyHeader == [k \in HeaderKeys |-> <<>>]

\* http.Header.Add in the place of Set: the value is appended to the key's.
HeaderAdd(h, k, v) == [h EXCEPT ![CanonicalMIMEHeaderKey(k)] = Append(@, v)]

\* The header set only when the key has no value yet.
HeaderSetIfAbsent(h, k, v) ==
    IF h[CanonicalMIMEHeaderKey(k)] = <<>>
    THEN [h EXCEPT ![CanonicalMIMEHeaderKey(k)] = <<v>>]
    ELSE h

\* http.Header.Set: the values of the key are replaced by the one value.
HeaderSet(h, k, v) == [h EXCEPT ![CanonicalMIMEHeaderKey(k)] = <<v>>]

\* http.Header.Get: the first value of the key, or "".
HeaderGet(h, k) ==
    IF h[CanonicalMIMEHeaderKey(k)] = <<>> THEN "" ELSE h[CanonicalMIMEHeaderKey(k)][1]

\* The printable ASCII characters, from the space (code 32) on ("grave"
\* stands for the grave accent, code 96), and the alphabet of
\* base64.StdEncoding.
Printable ==
    <<" ", "!", "\"", "#", "$", "%", "&", "'", "(", ")", "*", "+", ",", "-", ".", "/",
     "0", "1", "2", "3", "4", "5", "6", "7", "8", "9", ":", ";", "<", "=", ">", "?",
     "@", "A", "B", "C", "D", "E", "F", "G", "H", "I", "J", "K", "L", "M", "N", "O",
     "P", "Q", "R", "S", "T", "U", "V", "W", "X", "Y", "Z", "[", "\\", "]", "^", "_",
     "grave", "a", "b", "c", "d", "e", "f", "g", "h", "i", "j", "k", "l", "m", "n", "o",
     "p", "q", "r", "s", "t", "u", "v", "w", "x", "y", "z", "{", "|", "}", "~">>

EncodeStd ==
    <<"A", "B", "C", "D", "E", "F", "G", "H", "I", "J", "K", "L", "M", "N", "O", "P",
     "Q", "R", "S", "T", "U", "V", "W", "X", "Y", "Z", "a", "b", "c", "d", "e", "f",
     "g", "h", "i", "j", "k", "l", "m", "n", "o", "p", "q", "r", "s", "t", "u", "v",
     "w", "x", "y", "z", "0", "1", "2", "3", "4", "5", "6", "7", "8", "9", "+", "/">>

\* The byte of a character.
Byte(c) == (CHOOSE i \in 1..Len(Printable) : Printable[i] = c) + 31

\* The string of a sequence of characters.
RECURSIVE String(_)
String(q) == IF q = <<>> THEN "" ELSE Head(q) \o String(Tail(q))

\* base64.StdEncoding.EncodeToString on the characters q: three bytes give
\* four characters, and what is left of one or two bytes is padded with "=".
RECURSIVE EncodeToString(_)
EncodeToString(q) ==
    IF q = <<>> THEN <<>>
    ELSE IF Len(q) = 1 THEN
        LET n == Byte(q[1]) * 16
        IN <<EncodeStd[(n \div 64) + 1], EncodeStd[(n % 64) + 1], "=", "=">>
    ELSE IF Len(q) = 2 THEN
        LET n == (Byte(q[1]) * 256 + Byte(q[2])) * 4
        IN <<EncodeStd[(n \div 4096) + 1], EncodeStd[((n \div 64) % 64) + 1],
             EncodeStd[(n % 64) + 1], "=">>
    ELSE
        LET n == Byte(q[1]) * 65536 + Byte(q[2]) * 256 + Byte(q[3])
        IN <<EncodeStd[(n \div 262144) + 1], EncodeStd[((n \div 4096) % 64) + 1],
             EncodeStd[((n \div 64) % 64) + 1], EncodeStd[(n % 64) + 1]>>
           \o EncodeToString(SubSeq(q, 4, Len(q)))

\* The credentials put in the header as they are.
BasicAuthPlain(user, pass) == "Basic " \o String(user \o <<":">> \o pass)

\* The value (*http.Request).SetBasicAuth sets Authorization to, user and
\* pass being sequences of characters.
BasicAuth(user, pass) == "Basic " \o String(EncodeToString(user \o <<":">> \o pass))

NewRequest(scheme) == [scheme |-> scheme, ctx |-> Background]

\* http.NewRequest(http.MethodGet, url, http.NoBody), the URL parsed.  A path
\* is the sequence of its characters.
URLRequest(scheme, host, path, query, fragment) ==
    [scheme |-> scheme, host |-> host, path |-> path, query |-> query,
     fragment |-> fragment, method |-> "GET", body |-> "NoBody", ctx |-> Background]

Last(q) == q[Len(q)]

Front(q) == SubSeq(q, 1, Len(q) - 1)

HasSuffixSlash(q) == Len(q) > 0 /\ Last(q) = "/"

\* The path elements of q, a path without its leading "/": what stands
\* between the slashes.
RECURSIVE Elements(_, _)
Elements(q, cur) ==
    IF q = <<>> THEN <<cur>>
    ELSE IF Head(q) = "/" THEN <<cur>> \o Elements(Tail(q), <<>>)
    ELSE Elements(Tail(q), Append(cur, Head(q)))

\* path.Clean on the elements of a rooted path: empty elements and "." are
\* dropped, ".." drops the element before it, and is dropped at the root.
RECURSIVE CleanElements(_, _)
CleanElements(els, kept) ==
    IF els = <<>> THEN kept
    ELSE IF Head(els) = <<>> \/ Head(els) = <<".">> THEN CleanElements(Tail(els), kept)
    ELSE IF Head(els) = <<".", ".">>
         THEN CleanElements(Tail(els), IF kept = <<>> THEN kept ELSE Front(kept))
    ELSE CleanElements(Tail(els), Append(kept, Head(els)))

RECURSIVE JoinElements(_)
JoinElements(els) ==
    IF els = <<>> THEN <<>>
    ELSE IF Len(els) = 1 THEN Head(els)
    ELSE Head(els) \o <<"/">> \o JoinElements(Tail(els))

\* path.Join(p) for a rooted path p.
PathJoin(p) == <<"/">> \o JoinElements(CleanElements(Elements(Tail(p), <<>>), <<>>))

\* (*url.URL).JoinPath() without elements, on the path: the path is cleaned,
\* a relative path stays relative, and a trailing slash is preserved.
JoinPath(path) ==
    LET rooted == Len(path) > 0 /\ Head(path) = "/"
        elem == IF rooted THEN path ELSE <<"/">> \o path
        p == IF rooted THEN PathJoin(elem) ELSE Tail(PathJoin(elem))
    IN IF HasSuffixSlash(elem) /\ ~HasSuffixSlash(p) THEN Append(p, "/") ELSE p

\* The URL built anew from scheme, host and path.
StripSlashesRebuilt(stripTrailing, r) ==
    LET p == JoinPath(r.path)
    IN [r EXCEPT !.path = IF stripTrailing /\ Len(p) > 1 /\ HasSuffixSlash(p)
                          THEN Front(p) ELSE p,
                 !.query = "", !.fragment = ""]

\* The code of StripSlashes before it forwards: r.URL becomes a copy of the
\* URL with the path joined, trimmed of a trailing slash when stripTrailing.
StripSlashesURL(stripTrailing, r) ==
    LET p == JoinPath(r.path)
    IN [r EXCEPT !.path = IF stripTrailing /\ Len(p) > 1 /\ HasSuffixSlash(p)
                          THEN Front(p) ELSE p]

\* The context with the timeout made from context.Background(), not from
\* the context of the request.
WithTimeoutOfBackground(ctx, d) == [Background EXCEPT !.deadline = <<d>>]

\* The timeout not applied: the context forwarded has the deadline of the
\* one the request came with.
WithTimeoutDropped(ctx, d) == ctx

\* context.WithTimeout(parent, d), the call starting at time 0: the earlier
\* of the parent's deadline and d.
WithTimeout(ctx, d) ==
    [ctx EXCEPT !.deadline =
        IF ctx.deadline = NoDeadline \/ d < ctx.deadline[1] THEN <<d>> ELSE ctx.deadline]

\* The CancelFunc of the context: the first cause of the end of a context
\* stays.
Cancel(ctx) ==
    IF ctx.canceled THEN ctx ELSE [ctx EXCEPT !.canceled = TRUE, !.err = Canceled]

\* The CancelFunc of who is called: the contexts it ends, among those of the
\* request objects of a call.
Propagate(objs, who) ==
    [i \in DOMAIN objs |->
        IF who \in objs[i].ctx.cancels THEN [objs[i] EXCEPT !.ctx = Cancel(@)] ELSE objs[i]]

\* The timer of the deadline fires.
Expire(ctx) ==
    IF ctx.canceled THEN ctx ELSE [ctx EXCEPT !.canceled = TRUE, !.err = DeadlineExceeded]

\* The request objects of a call once the clock shows t: the contexts whose
\* deadline has come have ended.
Elapse(objs, t) ==
    [i \in DOMAIN objs |->
        IF objs[i].ctx.deadline # NoDeadline /\ objs[i].ctx.deadline[1] <= t
        THEN [objs[i] EXCEPT !.ctx = Expire(@)]
        ELSE objs[i]]

\* select { case <-ctx.Done(): ... case <-timer: ... } entered when the clock
\* shows now, the timer set to wait: which case is taken and when.  Two
\* cases ready at the same instant are taken either way.
Select(ctx, now, wait) ==
    LET timer == now + wait
        never == ~ctx.canceled /\ ctx.deadline = NoDeadline
        ends == IF ctx.canceled THEN now ELSE ctx.deadline[1]
    IN (IF ~never /\ ends <= timer THEN {[won |-> "done", now |-> ends]} ELSE {})
       \cup (IF never \/ timer <= ends THEN {[won |-> "timer", now |-> timer]} ELSE {})

\* ctx.Err() of a context whose Done channel is closed.
DoneErr(ctx) == Expire(ctx).err

\* (*http.Request).WithContext: a shallow copy with the context replaced.
WithContext(r, ctx) == [r EXCEPT !.ctx = ctx]

(***************************************************************************)
(* The middleware constructors.  A middleware value is the closure the     *)
(* constructor returns, represented by its kind and captured variables.    *)
(***************************************************************************)
Recover == [kind |-> "Recover"]

Secure == [kind |-> "Secure"]

\* Timeout returning nil for a negative duration only.
TimeoutNegativeOnly(d) == IF d < 0 THEN Nil ELSE [kind |-> "Timeout", d |-> d]

StripSlashes(stripTrailing) == [kind |-> "StripSlashes", stripTrailing |-> stripTrailing]

Timeout(d) == IF d <= 0 THEN Nil ELSE [kind |-> "Timeout", d |-> d]

\* SetHeader returning nil for an empty value as well.
SetHeaderNonEmpty(k, v) ==
    IF k = "" \/ v = "" THEN Nil ELSE [kind |-> "SetHeader", k |-> k, v |-> v]

SetHeader(k, v) == IF k = "" THEN Nil ELSE [kind |-> "SetHeader", k |-> k, v |-> v]

UserAgent(v) == SetHeader("User-Agent", v)

Accept(v) == SetHeader("Accept", v)

ContentType(v) == SetHeader("Content-Type", v)

AuthorizationBasic(user, pass) ==
    [kind |-> "AuthorizationBasic", user |-> user, pass |-> pass]

Authorization(v) == SetHeader("Authorization", v)

AuthorizationBearer(v) ==
    IF v = "" THEN Nil ELSE SetHeader("Authorization", "Bearer " \o v)

\* The middlewares of the examples and tests: one that prints its name and
\* forwards, and one that fails without forwarding.
PrintMiddleware(name) == [kind |-> "Print", name |-> name]

FailingMiddleware == [kind |-> "Failing"]

\* A middleware that panics with the payload, before it forwards or after
\* its forwarded call has returned.
PanickingMiddleware(when, payload) ==
    [kind |-> "Panicking", when |-> when, payload |-> payload]

ErrMiddlewareFailure == [kind |-> "errorString", msg |-> "middleware failure"]

\* A constructor call as the caller writes it, and the value it evaluates to.
CallNil == [ctor |-> "nil"]
CallRecover == [ctor |-> "Recover"]
CallSecure == [ctor |-> "Secure"]
CallTimeout(d) == [ctor |-> "Timeout", d |-> d]
CallSetHeader(k, v) == [ctor |-> "SetHeader", k |-> k, v |-> v]
CallAuthorizationBearer(v) == [ctor |-> "AuthorizationBearer", v |-> v]
CallPrint(name) == [ctor |-> "Print", name |-> name]
CallFailing == [ctor |-> "Failing"]
CallPanicking(when, payload) == [ctor |-> "Panicking", when |-> when, payload |-> payload]
CallUserAgent(v) == [ctor |-> "UserAgent", v |-> v]
CallAccept(v) == [ctor |-> "Accept", v |-> v]
CallContentType(v) == [ctor |-> "ContentType", v |-> v]
CallAuthorization(v) == [ctor |-> "Authorization", v |-> v]
CallAuthorizationBasic(user, pass) ==
    [ctor |-> "AuthorizationBasic", user |-> user, pass |-> pass]
CallStripSlashes(stripTrailing) == [ctor |-> "StripSlashes", stripTrailing |-> stripTrailing]

Eval(c) ==
    CASE c.ctor = "nil" -> Nil
      [] c.ctor = "Recover" -> Recover
      [] c.ctor = "Secure" -> Secure
      [] c.ctor = "Timeout" -> Timeout(c.d)
      [] c.ctor = "SetHeader" -> SetHeader(c.k, c.v)
      [] c.ctor = "AuthorizationBearer" -> AuthorizationBearer(c.v)
      [] c.ctor = "Print" -> PrintMiddleware(c.name)
      [] c.ctor = "Failing" -> FailingMiddleware
      [] c.ctor = "Panicking" -> PanickingMiddleware(c.when, c.payload)
      [] c.ctor = "StripSlashes" -> StripSlashes(c.stripTrailing)
      [] c.ctor = "UserAgent" -> UserAgent(c.v)
      [] c.ctor = "Accept" -> Accept(c.v)
      [] c.ctor = "ContentType" -> ContentType(c.v)
      [] c.ctor = "Authorization" -> Authorization(c.v)
      [] c.ctor = "AuthorizationBasic" -> AuthorizationBasic(c.user, c.pass)

EvalAll(cs) == [i \in 1..Len(cs) |-> Eval(cs[i])]

(***************************************************************************)
(* Base executors: the stub that answers 200, the doer that fails, and the *)
(* doer that panics with a payload.                                        *)
(***************************************************************************)
StubDoer == [kind |-> "stub"]
FailingDoer == [kind |-> "failing"]
PanickingDoer(p) == [kind |-> "panicking", payload |-> p]

ErrDoerFailure == [kind |-> "errorString", msg |-> "doer failure"]

Outcome(resp, err) == [resp |-> resp, err |-> err, panic |-> NoPanic]

Panicking(p) == [resp |-> NilResp, err |-> NilErr, panic |-> [kind |-> "panic", payload |-> p]]

NoOutcome == [resp |-> NilResp, err |-> NilErr, panic |-> NoPanic]

BaseDo(b) ==
    CASE b.kind = "stub" -> Outcome([kind |-> "resp", status |-> 200], NilErr)
      [] b.kind = "failing" -> Outcome(NilResp, ErrDoerFailure)
      [] b.kind = "panicking" -> Panicking(b.payload)

\* The handlers of TestTimeout: one that answers after need unless the
\* context of the request ends first, and one that answers at once with a
\* body whose first read takes delay unless that context ends first.
WaitingDoer(need) == [kind |-> "waiting", need |-> need]

\* A base executor that does not look at the context of the request: it
\* answers when its time has passed.
SleepingDoer(need) == [kind |-> "sleeping", need |-> need]
DelayedBodyDoer(delay) == [kind |-> "delayedBody", delay |-> delay]

\* The delayedReader of a response: the request object whose context it
\* holds, and its delay.
DelayedReader(obj, delay) == [obj |-> obj, delay |-> delay]

BodyResponse(body) == [kind |-> "resp", status |-> 200, body |-> body]

\* The base executor called when the clock shows now with the request object
\* obj, whose context is ctx: what it ends with, and when.
BaseDoAt(b, obj, ctx, now) ==
    CASE b.kind = "waiting" ->
            {[outcome |-> IF s.won = "done"
                          THEN Outcome(NilResp, DoneErr(ctx))
                          ELSE BaseDo(StubDoer),
              now |-> s.now] : s \in Select(ctx, now, b.need)}
      [] b.kind = "delayedBody" ->
            {[outcome |-> Outcome(BodyResponse(DelayedReader(obj, b.delay)), NilErr),
              now |-> now]}
      [] b.kind = "sleeping" ->
            {[outcome |-> BaseDo(StubDoer), now |-> now + b.need]}
      [] OTHER -> {[outcome |-> BaseDo(b), now |-> now]}

(***************************************************************************)
(* Slices.                                                                 *)
(***************************************************************************)
NilSlice == [arr |-> 0, len |-> 0]

ViewIn(arrs, s) == IF s.len = 0 THEN <<>> ELSE SubSeq(arrs[s.arr], 1, s.len)

\* A slice literal or variadic argument list: a new array holding elems.
MakeSlice(arrs, elems) ==
    IF Len(elems) = 0
    THEN [arrays |-> arrs, slice |-> NilSlice]
    ELSE [arrays |-> Append(arrs, elems),
          slice |-> [arr |-> Len(arrs) + 1, len |-> Len(elems)]]

\* append(s1, s2...) when s1 has room: s2 is written behind s1 in s1's array,
\* which the result then shares with s1.
AppendInPlace(arrs, s1, s2) ==
    IF s1.len = 0
    THEN MakeSlice(arrs, ViewIn(arrs, s2))
    ELSE [arrays |-> [arrs EXCEPT ![s1.arr] = ViewIn(arrs, s1) \o ViewIn(arrs, s2)],
          slice |-> [arr |-> s1.arr, len |-> s1.len + s2.len]]

\* slices.Concat with its arguments taken in the wrong order.
ConcatSwapped(arrs, s1, s2) == MakeSlice(arrs, ViewIn(arrs, s2) \o ViewIn(arrs, s1))

\* slices.Concat(s1, s2): a new array of the joint size, filled from both.
Concat(arrs, s1, s2) == MakeSlice(arrs, ViewIn(arrs, s1) \o ViewIn(arrs, s2))

(***************************************************************************)
(* Chain composition.  A DoerFunc is the base method value wrapped in the  *)
(* closures of the middlewares applied to it, outermost first.             *)
(***************************************************************************)
BaseFunc(b) == [layers |-> <<>>, base |-> b]

\* The middleware put innermost, next to the base.
WrapInnermost(mw, next) == [next EXCEPT !.layers = @ \o <<mw>>]

\* mw(next): the closure of mw around next.
Wrap(mw, next) == [next EXCEPT !.layers = <<mw>> \o @]

\* The loop of applyMiddlewares run from the first middleware to the last: the
\* last middleware of the list ends up outermost.
RECURSIVE applyForward(_, _, _)
applyForward(chain, mws, i) ==
    IF i > Len(mws) THEN chain
    ELSE IF mws[i] = Nil THEN applyForward(chain, mws, i + 1)
    ELSE applyForward(Wrap(mws[i], chain), mws, i + 1)

RECURSIVE applyLoop(_, _, _)
applyLoop(chain, mws, i) ==
    IF i < 1 THEN chain
    ELSE IF mws[i] = Nil THEN applyLoop(chain, mws, i - 1)
    ELSE applyLoop(Wrap(mws[i], chain), mws, i - 1)

applyMiddlewaresForward(do, mws) == applyForward(do, mws, 1)

\* The loop of applyMiddlewares leaving at a nil middleware instead of going
\* on to the one before it.
RECURSIVE applyUntilNil(_, _, _)
applyUntilNil(chain, mws, i) ==
    IF i < 1 \/ mws[i] = Nil THEN chain
    ELSE applyUntilNil(Wrap(mws[i], chain), mws, i - 1)

applyMiddlewaresUntilNil(do, mws) == applyUntilNil(do, mws, Len(mws))

applyMiddlewares(do, mws) == applyLoop(do, mws, Len(mws))

(***************************************************************************)
(* Wrappers.                                                               *)
(***************************************************************************)
NewRoundTripper(arrs, rt, mws) ==
    [kind |-> "RoundTripper",
     base |-> rt,
     chain |-> applyMiddlewares(BaseFunc(rt), ViewIn(arrs, mws)),
     middlewares |-> mws]

NewClient(arrs, doer, mws) ==
    [kind |-> "Client",
     base |-> doer,
     chain |-> applyMiddlewares(BaseFunc(doer), ViewIn(arrs, mws)),
     middlewares |-> mws]

\* With hands back the receiver instead of a new object.
ReceiverAddr(ws, recv) == recv

\* &Client{...} and &RoundTripper{...}: the address of a new object, which is
\* never the receiver of With.
NewAddr(ws, recv) == Len(ws) + 1

Put(ws, addr, w) == IF addr = Len(ws) + 1 THEN Append(ws, w) ELSE [ws EXCEPT ![addr] = w]

\* The middleware sequence a wrapper holds.
Middlewares(w) == ViewIn(arrays, wrappers[w].middlewares)

\* What the model remembers of how a wrapper was made: the wrapper With was
\* called on (0 for a constructor call), the middleware sequence that wrapper
\* held at the time, and the constructor calls of the variadic argument list.
Made(parent, inherited, cs) == [parent |-> parent, inherited |-> inherited, calls |-> cs]

\* The calls mw(next) of the loop of applyMiddlewares over mws, in the order
\* they are made: the index of the entry, the middleware called, and the
\* func value it returned, a closure that did not exist before the call.
\* Func values are numbered in the order they come to exist, after made.
RECURSIVE invokeLoop(_, _, _, _)
invokeLoop(log, mws, i, made) ==
    IF i < 1 THEN log
    ELSE IF mws[i] = Nil THEN invokeLoop(log, mws, i - 1, made)
    ELSE invokeLoop(Append(log, [at |-> i, mw |-> mws[i], func |-> made + Len(log) + 1]),
                    mws, i - 1, made)

Invoked(mws, made) == [invoked |-> invokeLoop(<<>>, mws, Len(mws), made)]

\* The number of func values the constructions of the wrappers ws made.
RECURSIVE Allocated(_)
Allocated(ws) ==
    IF ws = <<>> THEN 0
    ELSE Len(ws[Len(ws)].invoked) + Allocated(SubSeq(ws, 1, Len(ws) - 1))

ArgLists(P, max) == UNION {[1..n -> P] : n \in 0..max}

(***************************************************************************)
(* Construction and derivation.                                            *)
(***************************************************************************)
Constructed(P, B, max) ==
    \E kind \in {"Client", "RoundTripper"}, b \in B, cs \in ArgLists(P, max) :
        LET arg == MakeSlice(<<>>, EvalAll(cs))
            w == IF kind = "Client"
                 THEN NewClient(arg.arrays, b, arg.slice)
                 ELSE NewRoundTripper(arg.arrays, b, arg.slice)
        IN /\ arrays = arg.arrays
           /\ held = {a \in {arg.slice.arr} : a # 0}
           /\ wrappers = <<w @@ Made(0, <<>>, cs) @@ Invoked(ViewIn(arg.arrays, arg.slice), 0)>>

\* With wrapping the middlewares given around the chain of the receiver.
DeriveAround(kind, p, cs) ==
    LET arg == MakeSlice(arrays, EvalAll(cs))
        cat == Concat(arg.arrays, wrappers[p].middlewares, arg.slice)
        w == [kind |-> kind,
              base |-> wrappers[p].base,
              chain |-> applyMiddlewares(wrappers[p].chain, ViewIn(arg.arrays, arg.slice)),
              middlewares |-> cat.slice]
    IN /\ arrays' = cat.arrays
       /\ held' = held \cup {a \in {arg.slice.arr} : a # 0}
       /\ wrappers' = Append(wrappers,
                             w @@ [parent |-> p,
                                   inherited |-> ViewIn(arrays, wrappers[p].middlewares),
                                   calls |-> cs,
                                   invoked |-> invokeLoop(<<>>, ViewIn(arg.arrays, arg.slice),
                                                          arg.slice.len,
                                                          Allocated(wrappers))])

Derive(kind, p, cs) ==
    LET arg == MakeSlice(arrays, EvalAll(cs))
        cat == Concat(arg.arrays, wrappers[p].middlewares, arg.slice)
        w == IF kind = "Client"
             THEN NewClient(cat.arrays, wrappers[p].base, cat.slice)
             ELSE NewRoundTripper(cat.arrays, wrappers[p].base, cat.slice)
    IN /\ arrays' = cat.arrays
       /\ held' = held \cup {a \in {arg.slice.arr} : a # 0}
       /\ wrappers' = Put(wrappers, NewAddr(wrappers, p),
                          w @@ Made(p, ViewIn(arrays, wrappers[p].middlewares), cs)
                            @@ Invoked(ViewIn(cat.arrays, cat.slice), Allocated(wrappers)))

ClientWith(P, max) ==
    \E p \in DOMAIN wrappers, cs \in ArgLists(P, MaxArgs) :
        /\ wrappers[p].kind = "Client"
        /\ Len(wrappers) < max
        /\ Derive("Client", p, cs)
        /\ UNCHANGED call

RoundTripperWith(P, max) ==
    \E p \in DOMAIN wrappers, cs \in ArgLists(P, MaxArgs) :
        /\ wrappers[p].kind = "RoundTripper"
        /\ Len(wrappers) < max
        /\ Derive("RoundTripper", p, cs)
        /\ UNCHANGED call

\* The caller assigns to an element of a slice it passed as a variadic
\* argument list.  A write to an array that no wrapper refers to changes
\* nothing a wrapper can read, and is left out.
CallerWrite(P) ==
    \E a \in held, c \in P :
      \E i \in 1..Len(arrays[a]) :
        /\ \E w \in DOMAIN wrappers : wrappers[w].middlewares.arr = a
        /\ arrays[a][i] # Eval(c)
        /\ arrays' = [arrays EXCEPT ![a][i] = Eval(c)]
        /\ UNCHANGED <<held, wrappers, call>>

(***************************************************************************)
(* A call of Do/RoundTrip.                                                 *)
(***************************************************************************)
\* No read of the response body yet, and what io.ReadAll returned: whether
\* all the data, and the error.
NoRead == [state |-> "none"]
ReadAll(complete, err) == [state |-> "read", complete |-> complete, err |-> err]

Idle ==
    [status |-> "idle", w |-> 0, given |-> [req |-> NewRequest("http"), header |-> EmptyHeader],
     chain |-> BaseFunc(StubDoer), pos |-> 0,
     header |-> EmptyHeader, objs |-> <<>>, outcome |-> NoOutcome, trace |-> <<>>,
     now |-> 0, read |-> NoRead, outer |-> <<>>, nexts |-> <<>>]

\* The request object the layer at pos was called with: every Timeout layer
\* before it forwarded a shallow copy.
ObjAt(layers, pos) ==
    1 + Cardinality({i \in 1..(pos - 1) : i <= Len(layers) /\ layers[i].kind = "Timeout"})

\* Secure letting every web scheme through.
SecureAllowsWeb(r) == r.scheme \in {"http", "https"}

\* Secure rejecting the scheme "http" only.
SecureRejectsHttpOnly(r) == r.scheme # "http"

\* The test of Secure on the scheme of the request URL.
SecureAllows(r) == r.scheme = "https"

\* Timeout putting the derived context into the request object it was
\* called with as well.
RewriteWithContext(mw, r) ==
    IF mw.kind = "StripSlashes" THEN StripSlashesURL(mw.stripTrailing, r)
    ELSE IF mw.kind = "Timeout" THEN WithContext(r, WithTimeout(r.ctx, mw.d))
    ELSE r

\* What a middleware assigns to the fields of the request object it was
\* called with.
Rewrite(mw, r) ==
    IF mw.kind = "StripSlashes" THEN StripSlashesURL(mw.stripTrailing, r) ELSE r

\* The code of a middleware up to its call of next: whether it forwards, the
\* header map afterwards, the request object it forwards if that is a new
\* one, and what it returns when it does not forward.
Before(mw, header, r) ==
    CASE mw.kind = "SetHeader" ->
            [forward |-> TRUE, header |-> HeaderSet(header, mw.k, mw.v),
             copy |-> <<>>, outcome |-> NoOutcome]
      [] mw.kind = "AuthorizationBasic" ->
            [forward |-> TRUE,
             header |-> HeaderSet(header, "Authorization", BasicAuth(mw.user, mw.pass)),
             copy |-> <<>>, outcome |-> NoOutcome]
      [] mw.kind = "Secure" ->
            IF ~SecureAllows(r)
            THEN [forward |-> FALSE, header |-> header, copy |-> <<>>,
                  outcome |-> Outcome(NilResp, ErrInsecureScheme)]
            ELSE [forward |-> TRUE, header |-> header, copy |-> <<>>,
                  outcome |-> NoOutcome]
      [] mw.kind = "Timeout" ->
            [forward |-> TRUE, header |-> header,
             copy |-> <<WithContext(r, WithTimeout(r.ctx, mw.d))>>,
             outcome |-> NoOutcome]
      [] mw.kind = "Failing" ->
            [forward |-> FALSE, header |-> header, copy |-> <<>>,
             outcome |-> Outcome(NilResp, ErrMiddlewareFailure)]
      [] mw.kind = "Panicking" ->
            IF mw.when = "before"
            THEN [forward |-> FALSE, header |-> header, copy |-> <<>>,
                  outcome |-> Panicking(mw.payload)]
            ELSE [forward |-> TRUE, header |-> header, copy |-> <<>>,
                  outcome |-> NoOutcome]
      [] mw.kind \in {"Recover", "Print", "StripSlashes"} ->
            [forward |-> TRUE, header |-> header, copy |-> <<>>,
             outcome |-> NoOutcome]

\* What recover() yields for a panic with payload p: p itself, and for the nil
\* payload either the runtime's *PanicNilError or, with GODEBUG=panicnil=1,
\* nil.
RecoverValues(p) == IF p = NilPayload THEN {PanicNilError, NilPayload} ELSE {p}

\* The deferred function of Recover returning the sentinel itself, the
\* recovered value and the stack dropped.
RecoverDeferredSentinel(out, r) ==
    IF r # NilPayload
    THEN Outcome(out.resp, ErrPanicRecovered)
    ELSE Outcome(out.resp, out.err)

\* The deferred function of Recover, r being what recover() returned: the
\* named result err is overwritten when r is not nil.
RecoverDeferred(out, r) ==
    IF r # NilPayload
    THEN Outcome(out.resp, PanicError(r, DebugStack))
    ELSE Outcome(out.resp, out.err)

\* Recover without its deferred function: what next ends with is what the
\* middleware ends with.
AfterUnrecovered(mw, out) ==
    IF mw.kind = "Panicking" /\ out.panic = NoPanic /\ mw.when = "after"
    THEN {Panicking(mw.payload)}
    ELSE {out}

\* Recover dropping the error its next executor returned.
AfterSuppressing(mw, out) ==
    IF mw.kind = "Recover" /\ out.panic # NoPanic
    THEN {RecoverDeferred(out, r) : r \in RecoverValues(out.panic.payload)}
    ELSE IF mw.kind = "Recover" THEN {Outcome(out.resp, NilErr)}
    ELSE {out}

\* The code of a middleware that runs when its call of next has ended with
\* out (returned, or panicked): the outcomes it can end with itself.
After(mw, out) ==
    IF mw.kind = "Recover" /\ out.panic # NoPanic
    THEN {RecoverDeferred(out, r) : r \in RecoverValues(out.panic.payload)}
    ELSE IF mw.kind = "Panicking" /\ out.panic = NoPanic /\ mw.when = "after"
    THEN {Panicking(mw.payload)}
    ELSE {out}

\* A middleware that calls next, when that has ended, a second time.
CallsTwice(mw, r) ==
    IF Before(mw, EmptyHeader, r).forward THEN 2 ELSE 0

\* The number of calls of next in the code of a middleware called with r:
\* the one call Before leads to, or none.
Calls(mw, r) ==
    IF Before(mw, EmptyHeader, r).forward THEN 1 ELSE 0

\* Timeout returning when its deadline passes, its next executor left
\* running.
ReturnsAtDeadline(mw, ctx, now) ==
    IF mw.kind = "Timeout" /\ ctx.deadline # NoDeadline /\ ctx.deadline[1] < now
    THEN ctx.deadline[1]
    ELSE now

\* When a middleware returns whose call of next returned at now, ctx being
\* the context of the request it forwarded: next is called on the
\* goroutine of the caller, and the middleware returns when next has.
Returns(mw, ctx, now) == now

\* The record of a step of a call: the layer (the position in the chain, the
\* base being one past the last middleware), the header map and the request
\* object the layer was called with, and for a step that ends the layer's
\* call what it ends with.  "before" is a middleware called, up to where it
\* forwards or returns; "base" is the base executor called; "after" is a
\* middleware whose forwarded call returned, "unwind" one whose forwarded call
\* panicked.
Event(ev, pos, mw, header, r, out) ==
    [ev |-> ev, pos |-> pos, mw |-> mw, header |-> header, req |-> r, out |-> out]

\* Client.Do and RoundTripper.RoundTrip: the cached chain is called.
CallStart(R) ==
    \E w \in DOMAIN wrappers, r \in R :
        /\ call.status \in {"idle", "done"}
        /\ call' = [status |-> "in", w |-> w, given |-> r,
                    chain |-> wrappers[w].chain, pos |-> 1,
                    header |-> r.header, objs |-> <<r.req>>,
                    outcome |-> NoOutcome, trace |-> <<>>,
                    now |-> 0, read |-> NoRead, outer |-> <<>>, nexts |-> <<>>]
        /\ UNCHANGED <<arrays, held, wrappers>>

StepIn ==
    /\ call.status = "in"
    /\ call.pos <= Len(call.chain.layers)
    /\ LET mw == call.chain.layers[call.pos]
           r == call.objs[ObjAt(call.chain.layers, call.pos)]
           b == Before(mw, call.header, r)
       IN call' = [call EXCEPT
                !.status = IF b.forward THEN "in" ELSE "out",
                !.pos = IF b.forward THEN @ + 1 ELSE @ - 1,
                !.header = b.header,
                !.objs = [@ EXCEPT ![ObjAt(call.chain.layers, call.pos)] = Rewrite(mw, r)]
                            \o b.copy,
                !.outcome = b.outcome,
                !.nexts = IF b.forward THEN Append(@, 1) ELSE @,
                !.trace = Append(@, Event("before", call.pos, mw, call.header, r, b.outcome))]
    /\ UNCHANGED <<arrays, held, wrappers>>

StepBase ==
    /\ call.status = "in"
    /\ call.pos = Len(call.chain.layers) + 1
    /\ call.chain.base.kind \notin {"http.Client", "redirecting"}
    /\ LET obj == ObjAt(call.chain.layers, call.pos)
           r == call.objs[obj]
       IN \E res \in BaseDoAt(call.chain.base, obj, r.ctx, call.now) :
            call' = [call EXCEPT
                !.status = "out",
                !.pos = @ - 1,
                !.outcome = res.outcome,
                !.now = res.now,
                !.objs = Elapse(@, res.now),
                !.trace = Append(@, Event("base", call.pos, Nil, call.header, r,
                                         res.outcome))]
    /\ UNCHANGED <<arrays, held, wrappers>>

StepOut ==
    /\ call.status = "out"
    /\ call.pos >= 1
    /\ LET mw == call.chain.layers[call.pos]
           mine == ObjAt(call.chain.layers, call.pos)
           made == call.nexts[Len(call.nexts)]
       IN IF made < Calls(mw, call.objs[mine])
          THEN call' = [call EXCEPT
                !.status = "in",
                !.pos = @ + 1,
                !.outcome = NoOutcome,
                !.objs = SubSeq(@, 1, ObjAt(call.chain.layers, call.pos + 1)),
                !.nexts = [@ EXCEPT ![Len(@)] = made + 1]]
          ELSE \E out \in After(mw, call.outcome) :
            call' = [call EXCEPT
                !.pos = @ - 1,
                !.outcome = out,
                !.now = Returns(mw, call.objs[ObjAt(call.chain.layers, call.pos + 1)].ctx, @),
                !.objs = IF mw.kind = "Timeout"
                         THEN [@ EXCEPT ![mine + 1].ctx = Cancel(@)]
                         ELSE @,
                !.nexts = SubSeq(@, 1, Len(@) - 1),
                !.trace = Append(@, Event(IF call.outcome.panic = NoPanic
                                         THEN "after" ELSE "unwind",
                                         call.pos, mw, call.header, call.objs[mine], out))]
    /\ UNCHANGED <<arrays, held, wrappers>>

CallReturn ==
    /\ call.status = "out"
    /\ call.pos = 0
    /\ call.outer = <<>>
    /\ call' = [call EXCEPT !.status = "done"]
    /\ UNCHANGED <<arrays, held, wrappers>>

\* The base of the round tripper of the redirects example: the server moves
\* a host to the host with "www" put before it, hops times, and then
\* answers.  A host is the sequence of its labels.
RedirectingTransport(hops) == [kind |-> "redirecting", hops |-> hops, downgrade |-> FALSE]

\* The same server moving to the http URLs of the hosts.
DowngradingTransport(hops) == [kind |-> "redirecting", hops |-> hops, downgrade |-> TRUE]

\* &http.Client{Transport: tr}, tr being the wrapper at the address.
HTTPClient(transport) == [kind |-> "http.Client", transport |-> transport]

RedirectResponse(scheme, host) ==
    [kind |-> "resp", status |-> 301,
     location |-> [scheme |-> scheme, host |-> host, path |-> <<"/">>]]

\* The round trip of the server for the request r.
ServerRoundTrip(b, r) ==
    IF Cardinality({i \in 1..Len(r.host) : r.host[i] = "www"}) < b.hops
    THEN Outcome(RedirectResponse(IF b.downgrade THEN "http" ELSE r.scheme,
                                  <<"www">> \o r.host), NilErr)
    ELSE Outcome([kind |-> "resp", status |-> 200], NilErr)

\* The round tripper calling its base, the chain left out.
RoundTripBaseOnly(t) == BaseFunc(t.base)

\* (*RoundTripper).RoundTrip: what is called for the request.
RoundTrip(t) == t.chain

\* http.Client following a response: a redirection with a Location.
ShouldRedirect(resp) ==
    /\ resp.kind = "resp"
    /\ resp.status \in {301, 302, 303, 307, 308}
    /\ "location" \in DOMAIN resp

\* The error of http.Client.Do: a *url.Error around the cause.
URLError(err) == [kind |-> "*url.Error", err |-> err]

ErrTooManyRedirects == [kind |-> "errorString", msg |-> "stopped after 10 redirects"]

\* http.Client.Do called as the base of a Client: the request is sent to the
\* Transport, an httpc.RoundTripper, whose chain is entered.  The frame of
\* the Client's chain is kept until the last response is there: its chain,
\* position and request objects, the headers the request came with (they
\* are copied to the request of every redirect), the header map of the
\* request itself, and the number of requests sent.
ClientSend ==
    /\ call.status = "in"
    /\ call.pos = Len(call.chain.layers) + 1
    /\ call.chain.base.kind = "http.Client"
    /\ LET r == call.objs[ObjAt(call.chain.layers, call.pos)]
       IN call' = [call EXCEPT
                !.chain = RoundTrip(wrappers[call.chain.base.transport]),
                !.pos = 1,
                !.objs = <<r>>,
                !.outer = <<[chain |-> call.chain, pos |-> call.pos, objs |-> call.objs,
                            ireq |-> r, ireqhdr |-> call.header, first |-> call.header,
                            sent |-> 1]>>,
                !.trace = Append(@, Event("send", call.pos, Nil, call.header, r, NoOutcome))]
    /\ UNCHANGED <<arrays, held, wrappers>>

\* The base of the round tripper called: the server answers.
RoundTripBase ==
    /\ call.status = "in"
    /\ call.pos = Len(call.chain.layers) + 1
    /\ call.chain.base.kind = "redirecting"
    /\ LET r == call.objs[ObjAt(call.chain.layers, call.pos)]
           out == ServerRoundTrip(call.chain.base, r)
       IN call' = [call EXCEPT
                !.status = "out",
                !.pos = @ - 1,
                !.outcome = out,
                !.trace = Append(@, Event("base", call.pos, Nil, call.header, r, out))]
    /\ UNCHANGED <<arrays, held, wrappers>>

\* The Transport has returned to http.Client.Do.  A redirection is followed
\* with a new request for the Location, the headers of the first request
\* copied to it, unless ten requests were made; anything else ends Do, an
\* error wrapped in a *url.Error, a panic passing through.
ClientReceive ==
    /\ call.status = "out"
    /\ call.pos = 0
    /\ call.outer # <<>>
    /\ LET o == call.outer[1]
           out == call.outcome
           first == IF o.sent = 1 THEN call.header ELSE o.first
           follow == /\ out.panic = NoPanic
                     /\ out.err = NilErr
                     /\ ShouldRedirect(out.resp)
           ended == IF out.panic # NoPanic THEN out
                    ELSE IF out.err # NilErr THEN Outcome(NilResp, URLError(out.err))
                    ELSE IF ShouldRedirect(out.resp)
                         THEN Outcome(out.resp, URLError(ErrTooManyRedirects))
                    ELSE out
           req == [o.ireq EXCEPT !.scheme = out.resp.location.scheme,
                                 !.host = out.resp.location.host,
                                 !.path = out.resp.location.path]
           received == Event("receive", o.pos, Nil, call.header, call.objs[1], out)
       IN IF follow /\ o.sent < 10
          THEN call' = [call EXCEPT
                !.status = "in",
                !.pos = 1,
                !.objs = <<req>>,
                !.header = o.ireqhdr,
                !.outcome = NoOutcome,
                !.outer = <<[o EXCEPT !.first = first, !.sent = @ + 1]>>,
                !.trace = @ \o <<received,
                                 Event("send", o.pos, Nil, o.ireqhdr, req, NoOutcome)>>]
          ELSE call' = [call EXCEPT
                !.chain = o.chain,
                !.pos = o.pos - 1,
                !.objs = o.objs,
                !.header = first,
                !.outcome = ended,
                !.outer = <<>>,
                !.trace = Append(@, received)]
    /\ UNCHANGED <<arrays, held, wrappers>>

\* The caller cancels the context it made the request with, while the call
\* is in the chain.
CallerCancel ==
    /\ call.status = "in"
    /\ "caller" \in call.objs[1].ctx.cancels
    /\ ~call.objs[1].ctx.canceled
    /\ call' = [call EXCEPT !.objs = Propagate(@, "caller")]
    /\ UNCHANGED <<arrays, held, wrappers>>

\* The fields of a call, those of the calls of other goroutines left out.
Frame(c) == [f \in DOMAIN Idle |-> c[f]]

\* The calls in flight or ended: the one of the goroutine that runs, and
\* those of the goroutines that wait for the scheduler.
Frames == IF "parked" \in DOMAIN call THEN <<Frame(call)>> \o call.parked ELSE <<call>>

\* A goroutine calls Do or RoundTrip while the calls of other goroutines
\* are in flight: these wait, and the cached chain is called.
Go(R, max) ==
    \E w \in DOMAIN wrappers, r \in R :
        /\ Len(SelectSeq(Frames, LAMBDA f : f.status # "idle")) < max
        /\ call' = [status |-> "in", w |-> w, given |-> r,
                    chain |-> wrappers[w].chain, pos |-> 1,
                    header |-> r.header, objs |-> <<r.req>>,
                    outcome |-> NoOutcome, trace |-> <<>>,
                    now |-> 0, read |-> NoRead, outer |-> <<>>, nexts |-> <<>>,
                    parked |-> SelectSeq(Frames, LAMBDA f : f.status # "idle")]
        /\ UNCHANGED <<arrays, held, wrappers>>

\* The scheduler lets another goroutine run.
Switch ==
    \E i \in 1..Len(call.parked) :
        /\ call.parked[i].status # "done"
        /\ call' = call.parked[i] @@ [parked |-> [call.parked EXCEPT ![i] = Frame(call)]]
        /\ UNCHANGED <<arrays, held, wrappers>>

\* io.ReadAll(resp.Body) by the caller, for the body of a delayedReader:
\* its first Read waits for its delay or for the end of its context.
BodyRead ==
    /\ call.status = "done"
    /\ call.read = NoRead
    /\ call.outcome.err = NilErr
    /\ call.outcome.resp.kind = "resp"
    /\ "body" \in DOMAIN call.outcome.resp
    /\ LET body == call.outcome.resp.body
           ctx == call.objs[body.obj].ctx
       IN \E s \in Select(ctx, call.now, body.delay) :
            call' = [call EXCEPT
                !.now = s.now,
                !.objs = Elapse(@, s.now),
                !.read = IF s.won = "done"
                         THEN ReadAll(FALSE, DoneErr(ctx))
                         ELSE ReadAll(TRUE, NilErr)]
    /\ UNCHANGED <<arrays, held, wrappers>>

(***************************************************************************)
(* The specifications.  Each draws the middlewares, base executors and     *)
(* requests of the caller from a small pool.                               *)
(***************************************************************************)
Requests(schemes, headers) ==
    {[req |-> NewRequest(s), header |-> h] : s \in schemes, h \in headers}

\* Derivation and aliasing: a wrapper is made with a header setter, derived
\* from with two other header setters, and the caller writes a header setter
\* or nil to the slice the wrapper was made with.
DeriveRoots == {CallSetHeader("X-Foo", "foo")}

DeriveArgs == {CallSetHeader("X-Bar", "bar"), CallSetHeader("X-Bar", "baz")}

DeriveWrites == {CallNil, CallSetHeader("X-Foo", "foo")}

DeriveBases == {StubDoer}

Init ==
    /\ Constructed(DeriveRoots, DeriveBases, MaxArgs)
    /\ call = Idle

Next ==
    \/ ClientWith(DeriveArgs, MaxWrappers)
    \/ RoundTripperWith(DeriveArgs, MaxWrappers)
    \/ CallerWrite(DeriveWrites)

Spec == Init /\ [][Next]_vars

\* Inheritance: header setters, two of them for the same key, around the
\* stub; the wrappers are derived and called.
InheritPool ==
    {CallSetHeader("X-Foo", "foo"), CallSetHeader("X-Bar", "bar"),
     CallSetHeader("X-Bar", "baz")}

InheritBases == {StubDoer}

InheritRequests == Requests({"http"}, {EmptyHeader})

InitInherit ==
    /\ Constructed(InheritPool, InheritBases, MaxArgs)
    /\ call = Idle

NextInherit ==
    \/ ClientWith(InheritPool, MaxHeirs)
    \/ RoundTripperWith(InheritPool, MaxHeirs)
    \/ CallStart(InheritRequests)
    \/ StepIn
    \/ StepBase
    \/ StepOut
    \/ CallReturn

SpecInherit == InitInherit /\ [][NextInherit]_vars

\* Order: middlewares that print and forward, a header setter and the nil
\* middleware, around a base that answers, fails or panics.
OrderPool ==
    {CallNil, CallPrint("foo"), CallPrint("bar"), CallSetHeader("X-Foo", "foo")}

OrderBases == {StubDoer, FailingDoer, PanickingDoer(StringPayload("boom"))}

OrderRequests == Requests({"http"}, {EmptyHeader})

InitOrder ==
    /\ Constructed(OrderPool, OrderBases, MaxList)
    /\ call = Idle

NextOrder ==
    \/ CallStart(OrderRequests)
    \/ StepIn
    \/ StepBase
    \/ StepOut
    \/ CallReturn

SpecOrder == InitOrder /\ [][NextOrder]_vars

\* Panic isolation and scheme enforcement: Recover, Secure and a printing
\* middleware around every kind of base, for requests of several schemes.
GuardPool == {CallRecover, CallSecure, CallPrint("foo")}

GuardBases ==
    {StubDoer, FailingDoer, PanickingDoer(StringPayload("boom")),
     PanickingDoer(NilPayload)}

GuardRequests == Requests({"http", "https", "HTTPS"}, {EmptyHeader})

InitGuard ==
    /\ Constructed(GuardPool, GuardBases, MaxList)
    /\ call = Idle

NextGuard ==
    \/ CallStart(GuardRequests)
    \/ StepIn
    \/ StepBase
    \/ StepOut
    \/ CallReturn

SpecGuard == InitGuard /\ [][NextGuard]_vars

\* Vacuous configuration: the constructors that may return nil, called with
\* arguments that make them do so and with arguments that do not.
VacuousPool ==
    {CallSetHeader("", "foo"), CallSetHeader("X-Foo", "foo"),
     CallTimeout(-1), CallTimeout(0), CallTimeout(5),
     CallAuthorizationBearer(""), CallAuthorizationBearer("tok")}

VacuousBases == {StubDoer}

OldHeader == [EmptyHeader EXCEPT !["X-Foo"] = <<"old">>, !["Authorization"] = <<"old">>]

VacuousRequests == Requests({"http"}, {EmptyHeader, OldHeader})

InitVacuous ==
    /\ Constructed(VacuousPool, VacuousBases, MaxList)
    /\ call = Idle

NextVacuous ==
    \/ CallStart(VacuousRequests)
    \/ StepIn
    \/ StepBase
    \/ StepOut
    \/ CallReturn

SpecVacuous == InitVacuous /\ [][NextVacuous]_vars

\* Deadlines: Timeout around the handlers of TestTimeout; the caller reads
\* the body of the response.
DeadlinePool == {CallTimeout(0), CallTimeout(5), CallTimeout(10)}

DeadlineBases ==
    {WaitingDoer(5), WaitingDoer(7), WaitingDoer(10),
     DelayedBodyDoer(3), DelayedBodyDoer(15), SleepingDoer(3), SleepingDoer(7)}

DeadlineRequests == Requests({"http"}, {EmptyHeader})

InitDeadline ==
    /\ Constructed(DeadlinePool, DeadlineBases, MaxList)
    /\ call = Idle

NextDeadline ==
    \/ CallStart(DeadlineRequests)
    \/ StepIn
    \/ StepBase
    \/ StepOut
    \/ CallReturn
    \/ BodyRead

SpecDeadline == InitDeadline /\ [][NextDeadline]_vars

\* Path normalization: StripSlashes, for every short path over a slash, a
\* letter and a dot, and for the paths of TestStripSlashes.
StripPool == {CallStripSlashes(FALSE), CallStripSlashes(TRUE)}

StripBases == {StubDoer}

PathChars == {"/", "a", "."}

ShortPaths(max) == UNION {[1..n -> PathChars] : n \in 0..max}

TestPaths ==
    {<<"/", "/", "/", "v", "1", "/", "/", "f", "o", "o", "/">>,
     <<"/", "/", "/", "v", "1", "/", "/", "f", "o", "o", "/", "/", "/">>,
     <<"/", "v", "1", "/", "f", "o", "o">>,
     <<"/", "v", "1", "/", ".", ".", "/", "f", "o", "o">>}

URLRequests(paths, tails) ==
    {[req |-> URLRequest("http", "example.com", p, t[1], t[2]), header |-> OldHeader] :
        p \in paths, t \in tails}

StripRequests ==
    URLRequests(ShortPaths(MaxPath) \cup TestPaths, {<<"", "">>, <<"q=foo", "anchor">>})

InitStrip ==
    /\ Constructed(StripPool, StripBases, MaxArgs)
    /\ call = Idle

NextStrip ==
    \/ CallStart(StripRequests)
    \/ StepIn
    \/ StepBase
    \/ StepOut
    \/ CallReturn

SpecStrip == InitStrip /\ [][NextStrip]_vars

\* Header setters: SetHeader and the middlewares made of it, with values
\* and without, and AuthorizationBasic; the requests come without the
\* headers set, with one value for them and with several.
MaxSetters == 2

User == <<"f", "o", "o">>

Pass == <<"b", "a", "r">>

SettersPool ==
    {CallSetHeader("X-Foo", "foo"), CallSetHeader("x-foo", "bar"),
     CallSetHeader("X-Foo", ""), CallSetHeader("", "foo"),
     CallUserAgent(""), CallAccept(""), CallContentType(""), CallAuthorization(""),
     CallAuthorization("Bearer tok"),
     CallAuthorizationBasic(User, Pass), CallAuthorizationBasic(User, <<>>),
     CallAuthorizationBasic(<<>>, <<>>)}

SettersBases == {StubDoer}

ManyHeader ==
    [OldHeader EXCEPT !["X-Foo"] = <<"old", "older">>, !["User-Agent"] = <<"Go-http-client/1.1">>]

SettersRequests == Requests({"http"}, {EmptyHeader, OldHeader, ManyHeader})

InitSetters ==
    /\ Constructed(SettersPool, SettersBases, MaxSetters)
    /\ call = Idle

NextSetters ==
    \/ CallStart(SettersRequests)
    \/ StepIn
    \/ StepBase
    \/ StepOut
    \/ CallReturn

SpecSetters == InitSetters /\ [][NextSetters]_vars

\* Redirects: a round tripper with middlewares around the server, and a
\* Client with middlewares around the http.Client whose Transport the round
\* tripper is.
MaxHops == 2

TripperPool == {CallPrint("tripper middleware"), CallSetHeader("X-Foo", "foo")}

DoerPool == {CallPrint("doer middleware"), CallSetHeader("X-Bar", "bar")}

RedirectRequests ==
    {[req |-> URLRequest("http", <<"google", "com">>, <<>>, "", ""), header |-> h] :
        h \in {EmptyHeader, OldHeader}}

InitRedirects ==
    /\ \E hops \in 0..MaxHops, ts \in ArgLists(TripperPool, MaxArgs),
          cs \in ArgLists(DoerPool, MaxArgs) :
        LET targ == MakeSlice(<<>>, EvalAll(ts))
            tr == NewRoundTripper(targ.arrays, RedirectingTransport(hops), targ.slice)
            carg == MakeSlice(targ.arrays, EvalAll(cs))
            c == NewClient(carg.arrays, HTTPClient(1), carg.slice)
        IN /\ arrays = carg.arrays
           /\ held = {a \in {targ.slice.arr, carg.slice.arr} : a # 0}
           /\ wrappers = <<tr @@ Made(0, <<>>, ts), c @@ Made(0, <<>>, cs)>>
    /\ call = Idle

NextRedirects ==
    \/ CallStart(RedirectRequests)
    \/ StepIn
    \/ ClientSend
    \/ RoundTripBase
    \/ ClientReceive
    \/ StepOut
    \/ CallReturn

SpecRedirects == InitRedirects /\ [][NextRedirects]_vars

\* Redirects to insecure URLs: Secure on the round tripper of the
\* redirects example, the server moving to http URLs or keeping the scheme.
SecureHopsPool == {CallSecure, CallPrint("tripper middleware")}

SecureHopsRequests ==
    {[req |-> URLRequest(scheme, <<"google", "com">>, <<>>, "", ""), header |-> EmptyHeader] :
        scheme \in {"http", "https"}}

InitSecureHops ==
    /\ \E hops \in 0..MaxHops, ts \in ArgLists(SecureHopsPool, MaxArgs),
          cs \in ArgLists(DoerPool, MaxArgs) :
      \E rt \in {RedirectingTransport(hops), DowngradingTransport(hops)} :
        LET targ == MakeSlice(<<>>, EvalAll(ts))
            tr == NewRoundTripper(targ.arrays, rt, targ.slice)
            carg == MakeSlice(targ.arrays, EvalAll(cs))
            c == NewClient(carg.arrays, HTTPClient(1), carg.slice)
        IN /\ arrays = carg.arrays
           /\ held = {a \in {targ.slice.arr, carg.slice.arr} : a # 0}
           /\ wrappers = <<tr @@ Made(0, <<>>, ts), c @@ Made(0, <<>>, cs)>>
    /\ call = Idle

NextSecureHops ==
    \/ CallStart(SecureHopsRequests)
    \/ StepIn
    \/ ClientSend
    \/ RoundTripBase
    \/ ClientReceive
    \/ StepOut
    \/ CallReturn

SpecSecureHops == InitSecureHops /\ [][NextSecureHops]_vars

\* Failures: the built-in middlewares and a middleware that fails, around
\* base executors that answer, fail and panic.
FailurePool ==
    {CallRecover, CallStripSlashes(TRUE), CallSecure, CallTimeout(5),
     CallSetHeader("X-Foo", "foo"), CallFailing}

FailureBases == {StubDoer, FailingDoer, PanickingDoer(StringPayload("boom"))}

FailureRequests ==
    {[req |-> URLRequest(scheme, "example.com", <<"/", "/", "a">>, "", ""),
      header |-> EmptyHeader] : scheme \in {"http", "https"}}

InitFailures ==
    /\ Constructed(FailurePool, FailureBases, MaxList)
    /\ call = Idle

NextFailures ==
    \/ CallStart(FailureRequests)
    \/ StepIn
    \/ StepBase
    \/ StepOut
    \/ CallReturn

SpecFailures == InitFailures /\ [][NextFailures]_vars

\* Wrapping: constructions and derivations over lists with nil entries, and
\* calls of the wrappers made.
WrappingPool == {CallNil, CallPrint("foo")}

WrappingArgs == {CallNil, CallSetHeader("X-Foo", "foo")}

WrappingBases == {StubDoer}

WrappingRequests == Requests({"http"}, {EmptyHeader})

InitWrapping ==
    /\ Constructed(WrappingPool, WrappingBases, MaxList)
    /\ call = Idle

NextWrapping ==
    \/ ClientWith(WrappingArgs, MaxHeirs)
    \/ RoundTripperWith(WrappingArgs, MaxHeirs)
    \/ CallStart(WrappingRequests)
    \/ StepIn
    \/ StepBase
    \/ StepOut
    \/ CallReturn

SpecWrapping == InitWrapping /\ [][NextWrapping]_vars

\* Once: the middlewares of the package around a base that answers or
\* panics, for requests of both schemes.
OncePool ==
    {CallRecover, CallStripSlashes(FALSE), CallSecure, CallTimeout(5),
     CallAuthorizationBasic(User, Pass), CallUserAgent("foo")}

OnceBases == {StubDoer, PanickingDoer(StringPayload("boom"))}

InitOnce ==
    /\ Constructed(OncePool, OnceBases, MaxList)
    /\ call = Idle

NextOnce ==
    \/ CallStart(FailureRequests)
    \/ StepIn
    \/ StepBase
    \/ StepOut
    \/ CallReturn

SpecOnce == InitOnce /\ [][NextOnce]_vars

\* Parent contexts: Timeout middlewares around a base that waits on the
\* context, for requests whose context the caller can cancel or gave a
\* deadline.
ParentPool == {CallTimeout(5), CallTimeout(10)}

ParentBases == {WaitingDoer(7), StubDoer}

ParentContexts ==
    {Background, WithCancel(Background, "caller"),
     WithTimeout(Background, 3), WithTimeout(Background, 8)}

ParentRequests ==
    {[req |-> WithContext(NewRequest("http"), ctx), header |-> EmptyHeader] :
        ctx \in ParentContexts}

InitParent ==
    /\ Constructed(ParentPool, ParentBases, MaxList)
    /\ call = Idle

NextParent ==
    \/ CallStart(ParentRequests)
    \/ CallerCancel
    \/ StepIn
    \/ StepBase
    \/ StepOut
    \/ CallReturn

SpecParent == InitParent /\ [][NextParent]_vars

\* Isolation: Recover among middlewares that panic before they forward and
\* after, around base executors that answer and that panic.
IsolationPool ==
    {CallRecover, CallPrint("foo"),
     CallPanicking("before", StringPayload("early")),
     CallPanicking("after", StringPayload("late"))}

IsolationBases == {StubDoer, PanickingDoer(StringPayload("boom")), PanickingDoer(NilPayload)}

IsolationRequests == Requests({"http"}, {EmptyHeader})

InitIsolation ==
    /\ Constructed(IsolationPool, IsolationBases, MaxList)
    /\ call = Idle

NextIsolation ==
    \/ CallStart(IsolationRequests)
    \/ StepIn
    \/ StepBase
    \/ StepOut
    \/ CallReturn

SpecIsolation == InitIsolation /\ [][NextIsolation]_vars

\* Concurrency: goroutines call one wrapper, made with one middleware, and
\* derive wrappers from it at the same time.
MaxCalls == 2

ConcurrentPool == {CallSetHeader("X-Foo", "foo"), CallSecure}

ConcurrentArgs == {CallSetHeader("X-Bar", "bar")}

ConcurrentBases == {StubDoer}

ConcurrentRequests == Requests({"http", "https"}, {EmptyHeader})

InitConcurrent ==
    /\ Constructed(ConcurrentPool, ConcurrentBases, MaxArgs)
    /\ Len(wrappers[1].calls) = 1
    /\ call = Idle @@ [parked |-> <<>>]

NextConcurrent ==
    \/ ClientWith(ConcurrentArgs, MaxHeirs) /\ wrappers'[Len(wrappers')].parent = 1
    \/ RoundTripperWith(ConcurrentArgs, MaxHeirs) /\ wrappers'[Len(wrappers')].parent = 1
    \/ Go(ConcurrentRequests, MaxCalls) /\ call'.w = 1
    \/ Switch
    \/ StepIn
    \/ StepBase
    \/ StepOut
    \/ CallReturn

SpecConcurrent == InitConcurrent /\ [][NextConcurrent]_vars

(***************************************************************************)
(* Properties of derivation.                                               *)
(***************************************************************************)

\* The composition of a middleware sequence around a base: the middlewares
\* that are not nil, in the order of the sequence, around the base.
NotNil(mw) == mw # Nil

Composition(b, mws) == [layers |-> SelectSeq(mws, NotNil), base |-> b]

Derived(w) == wrappers[w].parent # 0

\* C3: a wrapper returned by With has the base of the wrapper With was called
\* on, holds that wrapper's middleware sequence followed by the middlewares
\* given to With, and its chain is the composition of that whole sequence
\* around the base; also when the receiver was itself returned by With.
C3_WithConcatenates ==
    \A w \in DOMAIN wrappers :
        Derived(w) =>
            LET p == wrappers[wrappers[w].parent]
                whole == wrappers[w].inherited \o EvalAll(wrappers[w].calls)
            IN /\ wrappers[w].kind = p.kind
               /\ wrappers[w].base = p.base
               /\ Middlewares(w) = whole
               /\ wrappers[w].chain = Composition(p.base, whole)

\* A wrapper derived from a derived wrapper, both sequences not empty.
C3_Witness ==
    \E w \in DOMAIN wrappers :
        /\ Derived(w)
        /\ Derived(wrappers[w].parent)
        /\ wrappers[w].inherited # <<>>
        /\ Len(wrappers[w].calls) > 0
        /\ Len(Middlewares(w)) = Len(wrappers[w].inherited) + Len(wrappers[w].calls)

\* C6: the cached chain of every wrapper is the composition of the middleware
\* sequence the wrapper holds around the base it holds.
C6_ChainIsComposition ==
    \A w \in DOMAIN wrappers :
        wrappers[w].chain = Composition(wrappers[w].base, Middlewares(w))

SharesStorage(v, w) ==
    /\ wrappers[v].middlewares.len > 0
    /\ wrappers[w].middlewares.len > 0
    /\ wrappers[v].middlewares.arr = wrappers[w].middlewares.arr

Siblings(v, w) ==
    /\ v # w
    /\ Derived(v)
    /\ wrappers[v].parent = wrappers[w].parent

\* C7: children of one parent each hold the parent's sequence followed by
\* their own additions, whatever was derived before or after them, and the
\* sequence of a child shares no storage with the sequence of its parent or
\* of a sibling.
C7_DerivationsDoNotInterfere ==
    \A v \in DOMAIN wrappers, w \in DOMAIN wrappers :
        /\ Siblings(v, w) =>
              /\ Middlewares(v) = wrappers[v].inherited \o EvalAll(wrappers[v].calls)
              /\ wrappers[v].chain =
                    Composition(wrappers[v].base,
                                wrappers[v].inherited \o EvalAll(wrappers[v].calls))
              /\ ~SharesStorage(v, w)
        /\ Derived(v) /\ wrappers[v].parent = w => ~SharesStorage(v, w)

\* Two children of one parent whose own additions differ, the parent and the
\* children holding middlewares.
C7_Witness ==
    \E v \in DOMAIN wrappers, w \in DOMAIN wrappers :
        /\ Siblings(v, w)
        /\ EvalAll(wrappers[v].calls) # EvalAll(wrappers[w].calls)
        /\ Len(wrappers[v].calls) > 0
        /\ Len(wrappers[w].calls) > 0
        /\ wrappers[v].inherited # <<>>

(***************************************************************************)
(* Properties of calls on derived wrappers.                                *)
(***************************************************************************)
Max(S) == CHOOSE x \in S : \A y \in S : y <= x

\* The last middleware of mws that sets header k, or 0.
LastSetter(mws, k) ==
    LET S == {i \in 1..Len(mws) : mws[i].kind = "SetHeader" /\ mws[i].k = k}
    IN IF S = {} THEN 0 ELSE Max(S)

\* The header map after the header setters of mws have run on h, one value
\* per key set: that of the last setter of the key.
HeaderAfter(h, mws) ==
    [k \in HeaderKeys |->
        IF LastSetter(mws, k) = 0 THEN h[k] ELSE <<mws[LastSetter(mws, k)].v>>]

\* The sequence a wrapper was made with: what it inherited, then the values
\* of the constructor calls of its argument list.
MadeWith(w) == wrappers[w].inherited \o EvalAll(wrappers[w].calls)

HasChild(w) == \E c \in DOMAIN wrappers : wrappers[c].parent = w

BaseEvents == {i \in 1..Len(call.trace) : call.trace[i].ev = "base"}

\* C4, on the wrappers: a step never changes a wrapper that exists, nor the
\* middleware sequence it holds.
C4_WrappersKept ==
    \A w \in DOMAIN wrappers :
        /\ w \in DOMAIN wrappers'
        /\ wrappers'[w] = wrappers[w]
        /\ ViewIn(arrays', wrappers'[w].middlewares) = ViewIn(arrays, wrappers[w].middlewares)

\* C4, on the calls: in a call of a wrapper that has children, the base
\* executor sees the headers of the middlewares the wrapper was made with and
\* of no other.
C4_ParentCallsOwn ==
    \A i \in BaseEvents :
        HasChild(call.w) =>
            call.trace[i].header = HeaderAfter(call.given.header, MadeWith(call.w))

\* C4: deriving children with With never changes the parent: its base, its
\* middleware sequence and its chain stay what they were, and a call of the
\* parent applies the parent's own middlewares only.
C4_ParentUnchanged == [][C4_WrappersKept]_vars /\ []C4_ParentCallsOwn

\* A call of a parent has reached the base after a child was derived that
\* sets a header of the parent to another value.
C4_Witness ==
    /\ call.status = "done"
    /\ BaseEvents # {}
    /\ \E c \in DOMAIN wrappers :
        /\ wrappers[c].parent = call.w
        /\ \E k \in HeaderKeys :
            /\ LastSetter(MadeWith(call.w), k) # 0
            /\ HeaderAfter(EmptyHeader, MadeWith(c))[k]
                  # HeaderAfter(EmptyHeader, MadeWith(call.w))[k]
            /\ \A i \in BaseEvents :
                call.trace[i].header[k] = HeaderAfter(EmptyHeader, MadeWith(call.w))[k]

\* The middlewares of the wrapper called that are not nil, in the order of
\* the sequence the wrapper holds.
CalledSequence == SelectSeq(Middlewares(call.w), NotNil)

\* C5: every middleware of a call and the base executor see the headers as
\* set by all the middlewares before them in the sequence of the wrapper, and
\* for a key set more than once the value of the last of these.
C5_HeadersAccumulate ==
    \A i \in 1..Len(call.trace) :
        LET e == call.trace[i]
        IN e.ev \in {"before", "base"} =>
              e.header = HeaderAfter(call.given.header, SubSeq(CalledSequence, 1, e.pos - 1))

\* In a call of a derived wrapper the base saw a header that an inherited
\* middleware had set to one value and an appended one to another.
C5_Witness ==
    /\ call.status = "done"
    /\ Derived(call.w)
    /\ \E i \in 1..Len(wrappers[call.w].inherited), j \in 1..Len(wrappers[call.w].calls) :
        LET a == wrappers[call.w].inherited[i]
            b == Eval(wrappers[call.w].calls[j])
        IN /\ a.kind = "SetHeader" /\ b.kind = "SetHeader"
           /\ a.k = b.k /\ a.v # b.v
           /\ \E e \in BaseEvents :
                /\ HeaderGet(call.trace[e].header, a.k) = b.v
                /\ Len(call.trace[e].header[a.k]) = 1

(***************************************************************************)
(* Properties of one call through a chain.                                 *)
(***************************************************************************)
\* What a step of a call did, without the request it saw.
Did(e) == [ev |-> e.ev, pos |-> e.pos, mw |-> e.mw]

\* The steps of a call through the middlewares mws, all of which forward,
\* around base b: the middlewares in the order of mws, the base, and the
\* middlewares in the reverse order, returning when the base returned.
ExpectedSteps(b, mws) ==
    LET n == Len(mws)
        back == IF BaseDo(b).panic = NoPanic THEN "after" ELSE "unwind"
    IN [i \in 1..(2 * n + 1) |->
            IF i <= n THEN [ev |-> "before", pos |-> i, mw |-> mws[i]]
            ELSE IF i = n + 1 THEN [ev |-> "base", pos |-> n + 1, mw |-> Nil]
            ELSE [ev |-> back, pos |-> 2 * n + 2 - i, mw |-> mws[2 * n + 2 - i]]]

NoneNil(mws) == \A i \in 1..Len(mws) : mws[i] # Nil

\* C1: a call of a wrapper made with the middlewares m0..mn, none of them
\* nil, runs m0, m1, ..., mn up to their forwarding in this order, then the
\* base executor, then what follows the forwarding in mn, ..., m1, m0.
C1_ListOrderInReverseOut ==
    call.status # "idle" /\ NoneNil(MadeWith(call.w)) =>
        LET want == ExpectedSteps(wrappers[call.w].base, MadeWith(call.w))
        IN /\ Len(call.trace) <= Len(want)
           /\ \A i \in 1..Len(call.trace) : Did(call.trace[i]) = want[i]
           /\ call.status = "done" => Len(call.trace) = Len(want)

\* A call through three middlewares, not all the same, whose base returned,
\* has ended.
C1_Witness ==
    /\ call.status = "done"
    /\ NoneNil(MadeWith(call.w))
    /\ Len(MadeWith(call.w)) = 3
    /\ MadeWith(call.w)[1] # MadeWith(call.w)[2]
    /\ MadeWith(call.w)[2] # MadeWith(call.w)[3]
    /\ call.trace[4].ev = "base"
    /\ call.trace[7].ev = "after"
    /\ call.trace[7].mw = MadeWith(call.w)[1]

\* C2: the chain of a wrapper made with a list that has nil entries is the
\* chain composed from the list without them, its other middlewares in their
\* order, and is the base executor itself when nothing is left; a call never
\* runs a nil middleware.
C2_NilEntriesSkipped ==
    /\ \A w \in DOMAIN wrappers :
        LET kept == SelectSeq(MadeWith(w), NotNil)
        IN /\ wrappers[w].chain = applyMiddlewares(BaseFunc(wrappers[w].base), kept)
           /\ wrappers[w].chain.layers = kept
           /\ kept = <<>> => wrappers[w].chain = BaseFunc(wrappers[w].base)
    /\ \A i \in 1..Len(call.trace) :
        call.trace[i].ev = "before" => call.trace[i].mw # Nil

\* A call has ended of a wrapper made with a nil entry between two
\* middlewares that are not nil.
C2_Witness ==
    /\ call.status = "done"
    /\ Len(MadeWith(call.w)) = 3
    /\ MadeWith(call.w)[1] # Nil
    /\ MadeWith(call.w)[2] = Nil
    /\ MadeWith(call.w)[3] # Nil
    /\ Len(call.trace) = 5

\* The steps of the call that end the call of a layer Recover forwarded to
\* with a panic, Recover being the layer that ends next.
RecoveredPanics ==
    {j \in 2..Len(call.trace) :
        /\ call.trace[j].mw = Recover
        /\ call.trace[j].ev \in {"after", "unwind"}
        /\ call.trace[j - 1].out.panic # NoPanic}

IsolatedAs(out, p) ==
    /\ out.panic = NoPanic
    /\ out.err.kind = "PanicError"
    /\ ErrorsIs(out.err, ErrPanicRecovered)
    /\ out.err.Recovered = p
    /\ Len(out.err.Stack) > 0

\* C8 as claimed: when the executor Recover wraps panics with payload p,
\* Recover returns a *PanicError that errors.Is finds to be
\* ErrPanicRecovered, whose Recovered is p and whose Stack is not empty.
C8_PanicBecomesPanicError ==
    \A j \in RecoveredPanics :
        IsolatedAs(call.trace[j].out, call.trace[j - 1].out.panic.payload)

\* C8, amended: the same for every payload p that is not nil.
C8_NonNilPanicBecomesPanicError ==
    \A j \in RecoveredPanics :
        call.trace[j - 1].out.panic.payload # NilPayload =>
            IsolatedAs(call.trace[j].out, call.trace[j - 1].out.panic.payload)

\* The base has panicked with "boom" under Recover and the call has ended
\* with the error.
C8_Witness ==
    /\ call.status = "done"
    /\ call.outcome.err.kind = "PanicError"
    /\ call.outcome.err.Recovered = StringPayload("boom")
    /\ \E j \in RecoveredPanics : call.trace[j - 1].ev = "base"

SecureCalls ==
    {i \in 1..Len(call.trace) :
        call.trace[i].ev = "before" /\ call.trace[i].mw = Secure}

\* C9: Secure called with a request whose scheme is not "https" returns
\* ErrInsecureScheme and no response, and the executor it wraps is not
\* called; called with a request whose scheme is "https" it calls the
\* executor it wraps and returns what that returns.
C9_SecureGuardsScheme ==
    \A i \in SecureCalls :
        LET e == call.trace[i]
        IN IF e.req.scheme # "https"
           THEN /\ e.out = Outcome(NilResp, ErrInsecureScheme)
                /\ \A j \in (i + 1)..Len(call.trace) : call.trace[j].pos < e.pos
           ELSE /\ \/ (i = Len(call.trace) /\ call.status = "in" /\ call.pos = e.pos + 1)
                   \/ (/\ i < Len(call.trace)
                       /\ call.trace[i + 1].pos = e.pos + 1
                       /\ call.trace[i + 1].ev \in {"before", "base"})
                /\ \A j \in (i + 1)..Len(call.trace) :
                      call.trace[j].pos = e.pos => call.trace[j].out = call.trace[j - 1].out

\* A call with scheme "HTTPS" has ended with ErrInsecureScheme at a Secure
\* that is not the outermost middleware, the base never called.
C9_Witness ==
    /\ call.status = "done"
    /\ call.given.req.scheme = "HTTPS"
    /\ call.outcome = Outcome(NilResp, ErrInsecureScheme)
    /\ \E i \in SecureCalls : i > 1
    /\ \A i \in 1..Len(call.trace) : call.trace[i].ev # "base"

\* The constructor calls whose arguments are vacuous.
Vacuous(c) ==
    \/ c.ctor = "SetHeader" /\ c.k = ""
    \/ c.ctor = "Timeout" /\ c.d <= 0
    \/ c.ctor = "AuthorizationBearer" /\ c.v = ""

NotVacuous(c) == ~Vacuous(c)

\* C10: SetHeader with an empty key, Timeout with a duration <= 0 and
\* AuthorizationBearer with an empty token return nil; the chain of a wrapper
\* made with them is the chain of the wrapper made without them, and when no
\* other middleware is given the base executor sees the request as the caller
\* passed it: headers, context and deadline.
C10_VacuousIsAbsent ==
    /\ \A w \in DOMAIN wrappers :
        /\ \A i \in 1..Len(wrappers[w].calls) :
              Vacuous(wrappers[w].calls[i]) => Middlewares(w)[i] = Nil
        /\ wrappers[w].chain =
              applyMiddlewares(BaseFunc(wrappers[w].base),
                               EvalAll(SelectSeq(wrappers[w].calls, NotVacuous)))
    /\ \A i \in BaseEvents :
        (\A j \in 1..Len(wrappers[call.w].calls) : Vacuous(wrappers[call.w].calls[j])) =>
            /\ i = 1
            /\ call.trace[i].header = call.given.header
            /\ call.trace[i].req = call.given.req
            /\ call.trace[i].req.ctx.deadline = NoDeadline

\* A call has ended of a wrapper made with the three vacuous constructor
\* calls, for a request that came with headers.
C10_Witness ==
    /\ call.status = "done"
    /\ call.given.header = OldHeader
    /\ \E i, j, k \in 1..Len(wrappers[call.w].calls) :
        /\ wrappers[call.w].calls[i] = CallSetHeader("", "foo")
        /\ wrappers[call.w].calls[j] = CallTimeout(0)
        /\ wrappers[call.w].calls[k] = CallAuthorizationBearer("")
    /\ call.trace[1].ev = "base"
    /\ call.trace[1].header = OldHeader

(***************************************************************************)
(* Properties of deadlines.                                                *)
(***************************************************************************)
\* The durations of the Timeout middlewares the wrapper called was made with.
TimeoutsOf(w) ==
    {MadeWith(w)[i].d : i \in {j \in 1..Len(MadeWith(w)) : MadeWith(w)[j].kind = "Timeout"}}

\* C11: a call through Timeout(d), d > 0, of a base that waits on the context
\* of the request ends with an error that is context.DeadlineExceeded and no
\* response when the base needs longer than d, and with the response of the
\* base and no error when the base needs less than d (than every d, when
\* there are several Timeout middlewares).
C11_TimeoutBoundsTheBase ==
    call.status = "done" /\ wrappers[call.w].base.kind = "waiting" =>
        LET need == wrappers[call.w].base.need
            ds == TimeoutsOf(call.w)
        IN /\ (\E d \in ds : need > d) =>
                  /\ ErrorsIs(call.outcome.err, DeadlineExceeded)
                  /\ call.outcome.resp = NilResp
                  /\ call.outcome.panic = NoPanic
           /\ (ds # {} /\ \A d \in ds : need < d) =>
                  call.outcome = BaseDo(StubDoer)

\* A call through Timeout(5) of a base that needs 10 has ended when the clock
\* showed 5, with context.DeadlineExceeded.
C11_Witness ==
    /\ call.status = "done"
    /\ wrappers[call.w].base = WaitingDoer(10)
    /\ TimeoutsOf(call.w) = {5}
    /\ call.now = 5
    /\ call.outcome.err = DeadlineExceeded

\* C24: a call that has reached a base executor that does not look at the
\* context ends when that executor has returned and with what it returned,
\* also when the deadline of a Timeout of the chain has passed by then.
C24_ExecutorNotInterrupted ==
    (call.status \in {"out", "done"} /\ wrappers[call.w].base.kind = "sleeping") =>
        /\ Cardinality(BaseEvents) = 1
        /\ call.now = wrappers[call.w].base.need
        /\ call.outcome = BaseDo(StubDoer)
        /\ \A i \in 1..Len(call.trace) :
              (\E j \in BaseEvents : j < i) => call.trace[i].ev = "after"

\* A call through Timeout(5) of a base that sleeps for 7 has ended when the
\* clock showed 7, with the response of the base.
C24_Witness ==
    /\ call.status = "done"
    /\ wrappers[call.w].base = SleepingDoer(7)
    /\ 5 \in TimeoutsOf(call.w)
    /\ call.now = 7
    /\ call.outcome.err = NilErr
    /\ call.outcome.resp.kind = "resp"
    /\ \E i \in BaseEvents : call.trace[i].req.ctx.deadline = <<5>>

\* The context the delayedReader of the response holds.
BodyContext == call.objs[call.outcome.resp.body.obj].ctx

ReturnedBody ==
    /\ call.status = "done"
    /\ wrappers[call.w].base.kind = "delayedBody"
    /\ TimeoutsOf(call.w) # {}

\* C12: after a call through Timeout(d) has returned a response, the context
\* of the forwarded request has not ended while the clock shows less than d,
\* and a body whose first read waits on that context for less than what is
\* left of d is read completely and without error.
C12_ContextLiveAfterReturn ==
    ReturnedBody =>
        /\ (call.read = NoRead /\ \A d \in TimeoutsOf(call.w) : call.now < d) =>
              ~BodyContext.canceled
        /\ (call.read # NoRead
                /\ \A d \in TimeoutsOf(call.w) : wrappers[call.w].base.delay < d) =>
              call.read = ReadAll(TRUE, NilErr)

\* C13: when the base has returned a response at once through Timeout(d), a
\* read of the body that waits on the context of the forwarded request for
\* longer than d fails with an error that is context.DeadlineExceeded, the
\* call itself having returned no error.
C13_LateBodyReadExceedsDeadline ==
    (ReturnedBody /\ call.read # NoRead
        /\ \E d \in TimeoutsOf(call.w) : wrappers[call.w].base.delay > d) =>
            /\ call.outcome.err = NilErr
            /\ call.read.state = "read"
            /\ ~call.read.complete
            /\ ErrorsIs(call.read.err, DeadlineExceeded)

(***************************************************************************)
(* Properties of path normalization.                                       *)
(***************************************************************************)
\* q with every run of slashes made one slash.
RECURSIVE Collapse(_)
Collapse(q) ==
    IF Len(q) < 2 THEN q
    ELSE IF q[1] = "/" /\ q[2] = "/" THEN Collapse(Tail(q))
    ELSE <<Head(q)>> \o Collapse(Tail(q))

\* The path claimed for StripSlashes: the runs of slashes collapsed, and the
\* trailing slash removed when stripTrailing, the root path apart.
CollapsedPath(stripTrailing, q) ==
    IF stripTrailing /\ Len(Collapse(q)) > 1 /\ HasSuffixSlash(Collapse(q))
    THEN Front(Collapse(q))
    ELSE Collapse(q)

\* The steps of the call in which StripSlashes was called and has forwarded.
StripCalls ==
    {i \in 1..(Len(call.trace) - 1) :
        call.trace[i].ev = "before" /\ call.trace[i].mw.kind = "StripSlashes"}

\* C14: the path of the request StripSlashes forwards is the path of the
\* request it was called with, every run of "/" collapsed to one "/", and
\* with stripTrailing the trailing "/" removed unless the path is "/".
C14_SlashesCollapsed ==
    \A i \in StripCalls :
        call.trace[i + 1].req.path =
            CollapsedPath(call.trace[i].mw.stripTrailing, call.trace[i].req.path)

\* C15: the request StripSlashes forwards differs from the request it was
\* called with in the URL path at most: scheme, host, query, fragment,
\* method, body and headers are the same.
C15_OnlyThePathChanges ==
    \A i \in StripCalls :
        /\ [call.trace[i + 1].req EXCEPT !.path = call.trace[i].req.path] = call.trace[i].req
        /\ call.trace[i + 1].header = call.trace[i].header

\* StripSlashes(true) has forwarded "/v1/foo" for "///v1//foo/", the query
\* and the fragment of the URL and the headers as they came.
C15_Witness ==
    /\ call.status = "done"
    /\ call.given.req.query = "q=foo"
    /\ call.given.req.fragment = "anchor"
    /\ call.given.req.path = <<"/", "/", "/", "v", "1", "/", "/", "f", "o", "o", "/">>
    /\ \E i \in BaseEvents :
        /\ i \in {j + 1 : j \in StripCalls}
        /\ call.trace[i].req.path = <<"/", "v", "1", "/", "f", "o", "o">>
        /\ call.trace[i].req.query = "q=foo"
        /\ call.trace[i].req.fragment = "anchor"
        /\ call.trace[i].header = OldHeader

\* No two "/" in the path stand next to each other.
NoRun(q) == \A j \in 1..(Len(q) - 1) : ~(q[j] = "/" /\ q[j + 1] = "/")

\* C25: StripSlashes(false) forwards a request whose URL path has no two
\* consecutive "/" with the URL as it came, the empty path and the paths
\* with "." and ".." segments too.
C25_NothingToStripLeftAlone ==
    \A i \in StripCalls :
        (~call.trace[i].mw.stripTrailing /\ NoRun(call.trace[i].req.path)) =>
            call.trace[i + 1].req = call.trace[i].req

(***************************************************************************)
(* Properties of the header setters.                                       *)
(***************************************************************************)
\* The positions in the trace where a middleware of the kind was entered.
Entered(kind) ==
    {i \in 1..(Len(call.trace) - 1) :
        call.trace[i].ev = "before" /\ call.trace[i].mw.kind = kind}

\* C16: a SetHeader(k, v) with a non-empty k forwards the request with
\* exactly the one value v under k, whether the request came with none, one
\* or several values for k, and with every other header as it came.
C16_SetHeaderOverwrites ==
    \A i \in Entered("SetHeader") :
        LET mw == call.trace[i].mw
            key == CanonicalMIMEHeaderKey(mw.k)
        IN /\ mw.k # ""
           /\ call.trace[i + 1].header[key] = <<mw.v>>
           /\ \A k \in HeaderKeys \ {key} :
                 call.trace[i + 1].header[k] = call.trace[i].header[k]

\* SetHeader("X-Foo", "foo") alone, called with two values under X-Foo, has
\* handed the base one value and the other headers of the request.
C16_Witness ==
    /\ call.status = "done"
    /\ call.given.header = ManyHeader
    /\ wrappers[call.w].calls = <<CallSetHeader("X-Foo", "foo")>>
    /\ \E i \in BaseEvents :
        /\ i - 1 \in Entered("SetHeader")
        /\ call.trace[i].header = [ManyHeader EXCEPT !["X-Foo"] = <<"foo">>]

\* The constructor calls with a non-empty key and an empty value.
EmptyValue(c) ==
    \/ c.ctor = "SetHeader" /\ c.k # "" /\ c.v = ""
    \/ c.ctor \in {"UserAgent", "Accept", "ContentType", "Authorization"} /\ c.v = ""

\* The constructor calls of SetHeader with an empty key.
EmptyKey(c) == c.ctor = "SetHeader" /\ c.k = ""

KeyGiven(c) == ~EmptyKey(c)

\* C17: SetHeader(k, "") with a non-empty k, and UserAgent(""), Accept(""),
\* ContentType("") and Authorization(""), are installed and overwrite the
\* header with the empty value, whatever the request or an earlier
\* middleware had there; SetHeader("", v) is absent from the chain and
\* changes no header.
C17_EmptyValueSetsEmptyKeyIsAbsent ==
    /\ \A w \in DOMAIN wrappers :
        /\ \A i \in 1..Len(wrappers[w].calls) :
              /\ EmptyValue(wrappers[w].calls[i]) =>
                    /\ Middlewares(w)[i] # Nil
                    /\ Middlewares(w)[i].kind = "SetHeader"
                    /\ Middlewares(w)[i].v = ""
              /\ EmptyKey(wrappers[w].calls[i]) => Middlewares(w)[i] = Nil
        /\ wrappers[w].chain =
              applyMiddlewares(BaseFunc(wrappers[w].base),
                               EvalAll(SelectSeq(wrappers[w].calls, KeyGiven)))
    /\ \A i \in Entered("SetHeader") :
        call.trace[i].mw.v = "" =>
            call.trace[i + 1].header[CanonicalMIMEHeaderKey(call.trace[i].mw.k)] = <<"">>
    /\ \A i \in BaseEvents :
        (\A j \in 1..Len(wrappers[call.w].calls) : EmptyKey(wrappers[call.w].calls[j])) =>
            call.trace[i].header = call.given.header

\* SetHeader("X-Foo", "foo") and then SetHeader("X-Foo", ""): the base has
\* seen the empty value under X-Foo.
C17_Witness ==
    /\ call.status = "done"
    /\ wrappers[call.w].calls = <<CallSetHeader("X-Foo", "foo"), CallSetHeader("X-Foo", "")>>
    /\ \E i \in BaseEvents :
        /\ call.trace[i - 1].header["X-Foo"] = <<"foo">>
        /\ call.trace[i].header["X-Foo"] = <<"">>

\* The Authorization values of RFC 7617 for the credentials of the model.
Credentials(user, pass) ==
    CASE user = User /\ pass = Pass -> "Basic Zm9vOmJhcg=="
      [] user = User /\ pass = <<>> -> "Basic Zm9vOg=="
      [] user = <<>> /\ pass = <<>> -> "Basic Og=="

\* C18: AuthorizationBasic(user, pass) is installed whatever user and pass
\* are, empty ones too, and forwards the request with the one Authorization
\* value "Basic " and the base64 of user:pass, whatever was there; for foo
\* and bar that is "Basic Zm9vOmJhcg==".
C18_BasicAuthAlwaysSet ==
    /\ \A w \in DOMAIN wrappers :
        \A i \in 1..Len(wrappers[w].calls) :
            wrappers[w].calls[i].ctor = "AuthorizationBasic" =>
                /\ Middlewares(w)[i] # Nil
                /\ Middlewares(w)[i].kind = "AuthorizationBasic"
    /\ \A i \in Entered("AuthorizationBasic") :
        call.trace[i + 1].header =
            [call.trace[i].header EXCEPT
                !["Authorization"] = <<Credentials(call.trace[i].mw.user, call.trace[i].mw.pass)>>]

\* AuthorizationBasic(foo, bar) after Authorization("Bearer tok"), and
\* AuthorizationBasic with empty credentials for a request that came with
\* an Authorization header.
C18_Witness ==
    /\ call.status = "done"
    /\ \/ /\ wrappers[call.w].calls =
                <<CallAuthorization("Bearer tok"), CallAuthorizationBasic(User, Pass)>>
          /\ \E i \in BaseEvents :
                /\ call.trace[i - 1].header["Authorization"] = <<"Bearer tok">>
                /\ call.trace[i].header["Authorization"] = <<"Basic Zm9vOmJhcg==">>
       \/ /\ wrappers[call.w].calls = <<CallAuthorizationBasic(<<>>, <<>>)>>
          /\ call.given.header = OldHeader
          /\ \E i \in BaseEvents : call.trace[i].header["Authorization"] = <<"Basic Og==">>

(***************************************************************************)
(* Properties of redirects.                                                *)
(***************************************************************************)
\* The positions in the trace where a request was sent to the Transport,
\* and where the Transport returned.
Sends == {i \in 1..Len(call.trace) : call.trace[i].ev = "send"}

Receives == {i \in 1..Len(call.trace) : call.trace[i].ev = "receive"}

\* The round trip the step at i of the trace belongs to: the number of
\* requests sent before it, or 0 when the step is one of the Client's chain.
TripOf(i) ==
    IF Cardinality({j \in Sends : j < i}) > Cardinality({j \in Receives : j < i})
    THEN Cardinality({j \in Sends : j < i})
    ELSE 0

\* The steps where the middleware at pos was entered in the round trip n.
Triggered(n, pos) ==
    {i \in 1..Len(call.trace) :
        /\ call.trace[i].ev = "before"
        /\ call.trace[i].pos = pos
        /\ TripOf(i) = n}

\* C19: in a call of Client.Do of a Client around an http.Client whose
\* Transport is an httpc.RoundTripper, every middleware of the Client is
\* triggered once, before the first request is sent to the Transport; every
\* middleware of the round tripper is triggered once in each round trip;
\* and there is one round trip for the request and one for every
\* redirection of the server.
C19_ClientOncePerCallTripperOncePerRoundTrip ==
    (call.status # "idle" /\ wrappers[call.w].base.kind = "http.Client") =>
        LET c == wrappers[call.w]
            tr == wrappers[c.base.transport]
        IN /\ \A pos \in 1..Len(c.chain.layers) :
                /\ Cardinality(Triggered(0, pos)) <= 1
                /\ Sends # {} =>
                      /\ Cardinality(Triggered(0, pos)) = 1
                      /\ \A i \in Triggered(0, pos), j \in Sends : i < j
           /\ \A n \in 1..Cardinality(Sends), pos \in 1..Len(tr.chain.layers) :
                /\ Cardinality(Triggered(n, pos)) <= 1
                /\ Cardinality(Receives) >= n => Cardinality(Triggered(n, pos)) = 1
           /\ Cardinality(Sends) <= tr.base.hops + 1
           /\ call.status = "done" => Cardinality(Sends) = tr.base.hops + 1

\* The redirects example with a server that redirects twice: the doer
\* middleware was triggered once and the tripper middleware three times.
C19_Witness ==
    /\ call.status = "done"
    /\ wrappers[call.w].base.kind = "http.Client"
    /\ wrappers[call.w].calls = <<CallPrint("doer middleware")>>
    /\ wrappers[wrappers[call.w].base.transport].calls = <<CallPrint("tripper middleware")>>
    /\ wrappers[wrappers[call.w].base.transport].base.hops = MaxHops
    /\ Cardinality({i \in 1..Len(call.trace) :
            call.trace[i].ev = "before" /\ call.trace[i].mw = PrintMiddleware("doer middleware")}) = 1
    /\ Cardinality({i \in 1..Len(call.trace) :
            call.trace[i].ev = "before" /\ call.trace[i].mw = PrintMiddleware("tripper middleware")})
         = MaxHops + 1
    /\ call.outcome.resp.status = 200

\* The round tripper the requests of the call go through.
TripperOf(w) ==
    IF wrappers[w].base.kind = "http.Client" THEN wrappers[w].base.transport ELSE w

SecureInstalled(w) ==
    \E pos \in 1..Len(wrappers[w].chain.layers) : wrappers[w].chain.layers[pos].kind = "Secure"

\* C22: with Secure in the chain of the round tripper, the base of the
\* round tripper is called for https URLs only, on every hop; the round
\* trip of a hop to another scheme ends with ErrInsecureScheme, and a
\* request for an https URL that the server redirects to an http URL fails
\* with it at the hop of the redirect.
C22_SecureChecksEveryHop ==
    (call.status # "idle" /\ SecureInstalled(TripperOf(call.w))) =>
        /\ \A i \in BaseEvents : call.trace[i].req.scheme = "https"
        /\ \A i \in Receives :
              call.trace[i].req.scheme # "https" =>
                  /\ call.trace[i].out.err = ErrInsecureScheme
                  /\ call.trace[i].out.resp = NilResp
        /\ (/\ call.status = "done"
            /\ call.w # TripperOf(call.w)
            /\ call.given.req.scheme = "https"
            /\ wrappers[TripperOf(call.w)].base.downgrade
            /\ wrappers[TripperOf(call.w)].base.hops >= 1) =>
                  /\ Cardinality(Sends) = 2
                  /\ Cardinality(BaseEvents) = 1
                  /\ call.outcome.err = URLError(ErrInsecureScheme)

\* A call for https://google.com has failed at the hop to
\* http://www.google.com, the server called once.
C22_Witness ==
    /\ call.status = "done"
    /\ call.w # TripperOf(call.w)
    /\ wrappers[TripperOf(call.w)].calls = <<CallSecure>>
    /\ wrappers[TripperOf(call.w)].base = DowngradingTransport(MaxHops)
    /\ call.given.req.scheme = "https"
    /\ Cardinality(BaseEvents) = 1
    /\ \E i \in Receives :
        /\ call.trace[i].req.scheme = "http"
        /\ call.trace[i].req.host = <<"www", "google", "com">>
        /\ call.trace[i].out.err = ErrInsecureScheme
    /\ call.outcome.err = URLError(ErrInsecureScheme)

(***************************************************************************)
(* Properties of failures.                                                 *)
(***************************************************************************)
\* The steps of the trace that returned without having forwarded: the base
\* executor, and a middleware that returned a failure of its own.
Returned ==
    {i \in 1..Len(call.trace) :
        \/ call.trace[i].ev = "base"
        \/ call.trace[i].ev = "before" /\ call.trace[i].out.err # NilErr}

\* C20: what the next executor of a built-in middleware returns normally,
\* the middleware returns itself, Recover too: a failure returned by the
\* base executor or by a middleware is the failure the caller of Do or
\* RoundTrip gets, the same value.
C20_FailuresPassUnchanged ==
    /\ \A i \in 2..Len(call.trace) :
        call.trace[i].ev = "after" => call.trace[i].out = call.trace[i - 1].out
    /\ \A i \in Returned :
        (call.status = "done" /\ call.trace[i].out.panic = NoPanic) =>
            /\ call.outcome = call.trace[i].out
            /\ call.outcome.err \in {NilErr, ErrDoerFailure, ErrMiddlewareFailure,
                                      ErrInsecureScheme}

\* The failure of the base executor has reached the caller through Recover,
\* Timeout and Secure.
C20_Witness ==
    /\ call.status = "done"
    /\ wrappers[call.w].calls = <<CallRecover, CallTimeout(5), CallSecure>>
    /\ wrappers[call.w].base = FailingDoer
    /\ \E i \in BaseEvents : call.trace[i].out.err = ErrDoerFailure
    /\ Cardinality({i \in 1..Len(call.trace) : call.trace[i].ev = "after"}) = 3
    /\ call.outcome.err = ErrDoerFailure

\* The steps where a middleware returned a failure without forwarding.
ShortCircuits ==
    {i \in 1..Len(call.trace) :
        call.trace[i].ev = "before" /\ call.trace[i].out.err # NilErr}

\* C23: when the middleware at position i of the list returns a failure
\* without forwarding, nothing at a later position is called in that call,
\* no middleware and not the base executor; the middlewares before i
\* resume after their forwarding in reverse order, i-1 first; and the
\* caller gets that failure.
C23_FailureShortCircuits ==
    \A i \in ShortCircuits :
        LET e == call.trace[i]
        IN /\ e.mw = SelectSeq(Middlewares(call.w), NotNil)[e.pos]
           /\ \A j \in 1..(i - 1) :
                 call.trace[j].ev = "before" /\ call.trace[j].pos = j
           /\ \A j \in (i + 1)..Len(call.trace) :
                 /\ call.trace[j].ev = "after"
                 /\ call.trace[j].pos = e.pos - (j - i)
                 /\ call.trace[j].out = e.out
           /\ call.status = "done" =>
                 /\ Len(call.trace) = i + e.pos - 1
                 /\ call.outcome = e.out

\* The failing middleware, second of three, has ended the call: Recover
\* before it has resumed, SetHeader after it and the base were not called.
C23_Witness ==
    /\ call.status = "done"
    /\ wrappers[call.w].calls = <<CallRecover, CallFailing, CallSetHeader("X-Foo", "foo")>>
    /\ Len(call.trace) = 3
    /\ call.trace[2].ev = "before" /\ call.trace[2].mw = FailingMiddleware
    /\ call.trace[3].ev = "after" /\ call.trace[3].mw = Recover
    /\ call.outcome.err = ErrMiddlewareFailure

(***************************************************************************)
(* Properties of the request objects.                                      *)
(***************************************************************************)
\* The Timeout layers of the chain called before the layer at pos.
TimeoutsBefore(pos) ==
    {q \in 1..(pos - 1) : q <= Len(call.chain.layers) /\ call.chain.layers[q].kind = "Timeout"}

\* C27: Timeout leaves the request object it is called with as it is and
\* forwards a copy with the derived context: the request of the caller
\* keeps its context during the call and after it, the middlewares listed
\* before every Timeout see that context when they resume, and the
\* middlewares listed after a Timeout and the base executor see a context
\* with the deadline.
C27_TimeoutForwardsACopy ==
    call.status # "idle" =>
        /\ call.objs[1].ctx = call.given.req.ctx
        /\ \A i \in 1..Len(call.trace) :
              LET e == call.trace[i]
              IN /\ TimeoutsBefore(e.pos) = {} => e.req.ctx = call.given.req.ctx
                 /\ TimeoutsBefore(e.pos) # {} =>
                       /\ e.req.ctx.deadline # NoDeadline
                       /\ e.req.ctx # call.given.req.ctx
                       /\ \E q \in TimeoutsBefore(e.pos) :
                             e.req.ctx.deadline = <<call.chain.layers[q].d>>
        /\ \A i \in 1..Len(call.trace) :
              (call.trace[i].ev = "before" /\ call.trace[i].mw.kind = "Timeout") =>
                  Len(call.objs) >= 1 + Cardinality(TimeoutsBefore(call.trace[i].pos + 1))

\* SetHeader, Timeout(5), Recover: the base has seen the deadline, SetHeader
\* has resumed with the request of the caller, its context as it was.
C27_Witness ==
    /\ call.status = "done"
    /\ wrappers[call.w].calls = <<CallSetHeader("X-Foo", "foo"), CallTimeout(5), CallRecover>>
    /\ \E i \in BaseEvents : call.trace[i].req.ctx.deadline = <<5>>
    /\ \E i \in 1..Len(call.trace) :
          /\ call.trace[i].ev = "after"
          /\ call.trace[i].pos = 1
          /\ call.trace[i].req.ctx = Background
    /\ call.objs[1].ctx = Background
    /\ Len(call.objs) = 2

\* The deadlines in force for the base of the call: that of the context of
\* the request and those of the Timeout middlewares of the chain.
DeadlinesOf ==
    {call.given.req.ctx.deadline[i] : i \in 1..Len(call.given.req.ctx.deadline)}
        \cup {call.chain.layers[q].d :
                q \in {p \in 1..Len(call.chain.layers) : call.chain.layers[p].kind = "Timeout"}}

Earliest(ds) == CHOOSE d \in ds : \A e \in ds : d <= e

\* C28: the context a Timeout forwards descends from the context of the
\* request: the caller cancelling its context ends it, the base executor
\* sees the earliest of the deadline of the request's context and of the
\* deadlines of all the Timeout middlewares, in whatever order they are
\* listed, and a base that waits on the context ends accordingly.
C28_TimeoutContextIsAChild ==
    call.status # "idle" =>
        /\ call.objs[1].ctx.canceled =>
              \A k \in 1..Len(call.objs) : call.objs[k].ctx.canceled
        /\ \A k \in 1..Len(call.objs) :
              call.objs[k].ctx.cancels = call.given.req.ctx.cancels
        /\ \A i \in BaseEvents :
              /\ call.trace[i].req.ctx.deadline =
                    (IF DeadlinesOf = {} THEN NoDeadline ELSE <<Earliest(DeadlinesOf)>>)
              /\ (call.chain.base.kind = "waiting" /\ call.trace[i].req.ctx.err = Canceled) =>
                    call.trace[i].out.err = Canceled
              /\ (/\ call.chain.base.kind = "waiting"
                  /\ ~call.trace[i].req.ctx.canceled
                  /\ DeadlinesOf # {}) =>
                    IF Earliest(DeadlinesOf) < call.chain.base.need
                    THEN call.trace[i].out.err = DeadlineExceeded
                            /\ call.now = Earliest(DeadlinesOf)
                    ELSE IF Earliest(DeadlinesOf) > call.chain.base.need
                    THEN call.trace[i].out.err = NilErr
                    ELSE TRUE

\* Timeout(10) and Timeout(5) in this order around the waiting base, for a
\* request with the deadline 3: the base has seen 3 and ended then; and a
\* call whose context the caller cancelled in the chain, the base ending
\* with context.Canceled.
C28_Witness ==
    /\ call.status = "done"
    /\ wrappers[call.w].base = WaitingDoer(7)
    /\ \/ /\ wrappers[call.w].calls = <<CallTimeout(10), CallTimeout(5)>>
          /\ call.given.req.ctx.deadline = <<3>>
          /\ \E i \in BaseEvents : call.trace[i].req.ctx.deadline = <<3>>
          /\ call.now = 3
          /\ call.outcome.err = DeadlineExceeded
       \/ /\ wrappers[call.w].calls = <<CallTimeout(5)>>
          /\ "caller" \in call.given.req.ctx.cancels
          /\ \E i \in BaseEvents : call.trace[i].req.ctx.deadline = <<5>>
          /\ call.outcome.err = Canceled

\* The func values the construction of a wrapper made.
FuncsOf(w) == {wrappers[w].invoked[k].func : k \in 1..Len(wrappers[w].invoked)}

Kept(mws) == {i \in 1..Len(mws) : mws[i] # Nil}

\* The construction of w called the wrapping function of each entry of its
\* list that is not nil exactly once, from the last to the first, and the
\* chain of w is made of the func values these calls returned and of no
\* other.
WrappedOnce(w) ==
    LET log == wrappers[w].invoked
        list == MadeWith(w)
    IN /\ Len(log) = Cardinality(Kept(list))
       /\ {log[k].at : k \in 1..Len(log)} = Kept(list)
       /\ \A j, k \in 1..Len(log) : j < k => log[j].at > log[k].at
       /\ \A k \in 1..Len(log) : log[k].mw = list[log[k].at]
       /\ wrappers[w].chain.layers = [k \in 1..Len(log) |-> log[Len(log) + 1 - k].mw]
       /\ wrappers[w].chain.base = wrappers[w].base

C29_Constructions ==
    \A w \in DOMAIN wrappers :
        /\ WrappedOnce(w)
        /\ \A v \in DOMAIN wrappers : v # w => FuncsOf(v) \cap FuncsOf(w) = {}
        /\ Derived(w) =>
              /\ wrappers[w].base = wrappers[wrappers[w].parent].base
              /\ Len(wrappers[w].invoked) >= Len(wrappers[wrappers[w].parent].invoked)

C29_NoneInCalls ==
    /\ \A w \in DOMAIN wrappers : wrappers'[w].invoked = wrappers[w].invoked
    /\ call' # call => wrappers' = wrappers

\* C29: the construction of a wrapper calls the wrapping function of each
\* middleware of its list that is not nil exactly once, from the last entry
\* to the first; Do and RoundTrip call none; With calls the wrapping
\* functions of the inherited middlewares again for the wrapper it returns,
\* so that a wrapper and the one derived from it have no wrapped executor in
\* common, only the base.
C29_WrappedOncePerConstruction == []C29_Constructions /\ [][C29_NoneInCalls]_vars

\* A wrapper derived from one that wrapped something, its list holding a
\* nil entry and at least two others, has been called.
C29_Witness ==
    /\ call.status = "done"
    /\ Derived(call.w)
    /\ Len(wrappers[wrappers[call.w].parent].invoked) >= 1
    /\ Len(wrappers[call.w].invoked) >= 2
    /\ \E i \in 1..Len(MadeWith(call.w)) : MadeWith(call.w)[i] = Nil

\* The step of the trace at which the call of the layer entered at step i
\* ended, or one past the trace while it runs.
EndOf(i) ==
    LET ends == {j \in (i + 1)..Len(call.trace) :
                    /\ call.trace[j].pos = call.trace[i].pos
                    /\ call.trace[j].ev \in {"after", "unwind"}}
    IN IF ends = {} THEN Len(call.trace) + 1
       ELSE CHOOSE j \in ends : \A k \in ends : j <= k

\* The calls of next the middleware entered at step i has made.
NextCalls(i) ==
    {j \in (i + 1)..(EndOf(i) - 1) :
        /\ call.trace[j].pos = call.trace[i].pos + 1
        /\ call.trace[j].ev \in {"before", "base"}}

\* The call of the middleware entered at step i has ended.
Ended(i) ==
    \/ EndOf(i) <= Len(call.trace)
    \/ call.trace[i].out # NoOutcome
    \/ call.status = "done"

OnceKinds == {"Recover", "StripSlashes", "Timeout", "AuthorizationBasic", "SetHeader"}

\* C30: a middleware of the package calls next at most once in a call of
\* it: Recover, StripSlashes, Timeout, AuthorizationBasic and the header
\* setters exactly once, Secure once for an https request and not at all
\* for another; the base executor is therefore called at most once in a Do
\* or RoundTrip.
C30_NextAtMostOnce ==
    /\ Cardinality(BaseEvents) <= 1
    /\ \A i \in 1..Len(call.trace) :
          call.trace[i].ev = "before" =>
            /\ Cardinality(NextCalls(i)) <= 1
            /\ (Ended(i) /\ call.trace[i].mw.kind \in OnceKinds) =>
                  Cardinality(NextCalls(i)) = 1
            /\ (Ended(i) /\ call.trace[i].mw.kind = "Secure") =>
                  Cardinality(NextCalls(i)) =
                    (IF call.trace[i].req.scheme = "https" THEN 1 ELSE 0)

\* A call of three middlewares has ended, each having called next, the base
\* called once; and a call that Secure ended without calling next.
C30_Witness ==
    /\ call.status = "done"
    /\ \/ /\ Len(call.chain.layers) = 3
          /\ Cardinality(BaseEvents) = 1
          /\ \E i \in 1..Len(call.trace) :
                call.trace[i].ev = "before" /\ call.trace[i].mw.kind = "Secure"
       \/ /\ Len(call.chain.layers) = 3
          /\ call.given.req.scheme = "http"
          /\ call.chain.layers[2].kind = "Secure"
          /\ BaseEvents = {}

(***************************************************************************)
(* Properties of the isolation of panics.                                  *)
(***************************************************************************)
\* The steps where a panic was raised: by the base, by a middleware before
\* it forwarded, or by a middleware whose forwarded call had returned.
Raised ==
    {i \in 1..Len(call.trace) :
        call.trace[i].ev \in {"base", "before", "after"} /\ call.trace[i].out.panic # NoPanic}

\* The steps where a panic reached a Recover, and where it reached another
\* middleware.
Caught == {j \in 2..Len(call.trace) : call.trace[j].ev = "unwind" /\ call.trace[j].mw = Recover}

Passed == {j \in 2..Len(call.trace) : call.trace[j].ev = "unwind" /\ call.trace[j].mw # Recover}

\* No Recover is listed before the layer of the step.
Unwrapped(i) == \A q \in 1..(call.trace[i].pos - 1) : call.chain.layers[q] # Recover

C26_OnlyWrappedIsolated ==
    /\ \A j \in Passed : call.trace[j].out = call.trace[j - 1].out
    /\ call.status = "done" =>
          (call.outcome.panic # NoPanic <=> \E i \in Raised : Unwrapped(i))
    /\ \A i \in Raised :
          (call.status = "done" /\ Unwrapped(i)) => call.outcome.panic = call.trace[i].out.panic

RECURSIVE Serial(_, _, _, _)
Serial(chain, pos, header, r) ==
    IF pos > Len(chain.layers) THEN {BaseDo(chain.base)}
    ELSE LET mw == chain.layers[pos]
             b == Before(mw, header, r)
             forwarded == IF b.copy = <<>> THEN Rewrite(mw, r) ELSE b.copy[1]
         IN IF ~b.forward THEN {b.outcome}
            ELSE UNION {After(mw, out) : out \in Serial(chain, pos + 1, b.header, forwarded)}

C21_StateFixed ==
    \A w \in DOMAIN wrappers :
        /\ wrappers'[w].base = wrappers[w].base
        /\ wrappers'[w].middlewares = wrappers[w].middlewares
        /\ wrappers'[w].chain = wrappers[w].chain
        /\ ViewIn(arrays', wrappers'[w].middlewares) = ViewIn(arrays, wrappers[w].middlewares)

C21_OutcomeOwn ==
    \A i \in 1..Len(Frames) :
        LET f == Frames[i]
        IN f.status # "idle" =>
            /\ f.chain = wrappers[f.w].chain
            /\ f.status = "done" =>
                  f.outcome \in Serial(wrappers[f.w].chain, 1, f.given.header, f.given.req)

\* C21: calls of Do/RoundTrip that run at the same time on a wrapper, and
\* calls of With on it in between, never write the base, the middleware
\* sequence or the chain of a wrapper, and every call ends with what its
\* own request gives when the chain of its wrapper runs alone.
C21_ConcurrentCallsShareNothingWritten == [][C21_StateFixed]_vars /\ []C21_OutcomeOwn

\* Two calls of one wrapper have ended, the steps of the one between the
\* steps of the other and a With on the wrapper in between, the one
\* rejected by Secure and the other answered.
C21_Witness ==
    /\ Len(Frames) = 2
    /\ Frames[1].status = "done" /\ Frames[2].status = "done"
    /\ Frames[1].w = Frames[2].w
    /\ \E c \in DOMAIN wrappers : wrappers[c].parent = Frames[1].w
    /\ Frames[1].given.req.scheme = "http" /\ Frames[2].given.req.scheme = "https"
    /\ Frames[1].outcome.err = ErrInsecureScheme
    /\ Frames[2].outcome.err = NilErr
    /\ Frames[2].outcome.resp.kind = "resp"
    /\ Len(Frames[2].trace) > Len(Frames[1].trace)

====
